---- MODULE Spec2Model ----
(***************************************************************************)
(* Payroll document generation of gestion-ov: the computation core of      *)
(* src/src/python/generate_document.py (age-conditioned deduction, period  *)
(* aggregation, amount formatting) and the per-document generators that    *)
(* drive it.                                                               *)
(*                                                                         *)
(* Amounts are Python floats in the source.  Here an amount is an integer  *)
(* number of units of 1/100000 dirham, so that a gross amount with three   *)
(* decimals times the 6% or 12% rate is still an exact integer; the        *)
(* arithmetic is the decimal arithmetic the floats approximate.            *)
(* An optional value (a key that may be absent from a JSON object, a       *)
(* function that may return None) is <<>> for None and <<v>> for v.        *)
(***************************************************************************)
EXTENDS Integers, Sequences, FiniteSets, TLC

VARIABLES
    payload,   \* the request payload shared by the documents of one period
    out,       \* documentType -> outcome of generating that document
    dirs,      \* the directories created (ensure_dir) so far
    files,     \* the paths of the documents written (doc.save) so far
    inp,       \* arguments of a call of a pure function
    res        \* what the called functions returned for inp

vars == <<payload, out, dirs, files, inp, res>>

-----------------------------------------------------------------------------
(* Representation *)

\* units per dirham
Scale == 100000
\* units per centime: round2 keeps two decimals ("{:.2f}")
CentUnits == 1000
\* units per 1/1000 dirham, the finest input amount of the model
MilliUnits == 100

None == <<>>
Some(v) == <<v>>

\* Python truthiness of an optional number: None and 0 are falsy
Truthy(o) == o # None /\ o[1] # 0

\* a or b or default
FirstTruthy(a, b, default) ==
    IF Truthy(a) THEN a[1] ELSE IF Truthy(b) THEN b[1] ELSE default

Max(a, b) == IF a >= b THEN a ELSE b

-----------------------------------------------------------------------------
(* Dates *)

IsLeap(y) == (y % 4 = 0 /\ y % 100 # 0) \/ y % 400 = 0

\* calendar.monthrange(year, month)[1]
monthrange(y, m) ==
    IF m = 2 THEN (IF IsLeap(y) THEN 29 ELSE 28)
    ELSE IF m \in {4, 6, 9, 11} THEN 30 ELSE 31

\* datetime.date(y, m, d) raises ValueError outside these ranges
IsDate(y, m, d) ==
    /\ y \in 1..9999
    /\ m \in 1..12
    /\ d \in 1..monthrange(y, m)

MkDate(y, m, d) == [year |-> y, month |-> m, day |-> d]

\* A date_naissance value of the payload:
\*   k = "none"  the key is absent, null or ""
\*   k = "dmy"   the text "d/m/y"
\*   k = "iso"   the text "y-m-d"
\*   k = "text"  any other text
Birth(k, y, m, d) == [k |-> k, y |-> y, m |-> m, d |-> d]
NoBirth == Birth("none", 0, 0, 0)
BadBirth == Birth("text", 0, 0, 0)

\* parse_date: None for an absent value, for a d/m/y or ISO text that is no
\* calendar date, and for any other text
parse_date(value) ==
    IF value.k = "none" THEN None
    ELSE IF value.k = "dmy" THEN
        (IF IsDate(value.y, value.m, value.d)
         THEN Some(MkDate(value.y, value.m, value.d)) ELSE None)
    ELSE IF value.k = "iso" THEN
        (IF IsDate(value.y, value.m, value.d)
         THEN Some(MkDate(value.y, value.m, value.d)) ELSE None)
    ELSE None

\* mutant: the anniversary day itself does not count the year
TupleLess_or_equal(m1, d1, m2, d2) == m1 < m2 \/ (m1 = m2 /\ d1 <= d2)

\* (ref.month, ref.day) < (b.month, b.day), Python's tuple order
TupleLess(m1, d1, m2, d2) == m1 < m2 \/ (m1 = m2 /\ d1 < d2)

\* the age once the birth date b is parsed
age_between(b, ref) ==
    IF TupleLess(ref.month, ref.day, b.month, b.day)
    THEN ref.year - b.year - 1
    ELSE ref.year - b.year

\* calculate_age_at with b = parse_date(birth)
age_of_parsed(b, ref) ==
    IF b = None THEN None ELSE Some(age_between(b[1], ref))

calculate_age_at(birth, ref) == age_of_parsed(parse_date(birth), ref)

\* month_start_end(year, month)[1]
month_end(year, month) == MkDate(year, month, monthrange(year, month))

\* <<date(year, month, 1), date(year, month, end_day)>>
month_start_end(year, month) == <<MkDate(year, month, 1), month_end(year, month)>>

-----------------------------------------------------------------------------
(* Amounts *)

\* RCAR_RATE = 0.06, in percent
RCAR_RATE == 6

\* round2: the nearest multiple of one centime.  In the source the amount
\* is a binary double, so an amount written with a decimal half centime is
\* really just above or just below it; the amounts of this model are kept
\* off the half centime, where both agree.
round2(value) == ((value + (CentUnits \div 2)) \div CentUnits) * CentUnits

\* gross * rate, rate in percent; exact for a gross in 1/1000 dirham
TimesRate(gross, rate) == (gross * rate) \div 100

\* mutant: a worker whose age equals the limit is not deducted
deduction_applies_below(age, age_limit) == age = None \/ age[1] < age_limit

\* age is None or age <= int(age_limit)
deduction_applies(age, age_limit) == age = None \/ age[1] <= age_limit

calculate_igr_deduction(date_naissance, ref_date, gross_salary, age_limit) ==
    IF deduction_applies(calculate_age_at(date_naissance, ref_date),
                         age_limit)
    THEN round2(TimesRate(gross_salary, RCAR_RATE))
    ELSE 0

-----------------------------------------------------------------------------
(* Text *)

Digit(d) == <<"0", "1", "2", "3", "4", "5", "6", "7", "8", "9">>[d + 1]

\* str(n) of an integer n >= 0
RECURSIVE IntToStr(_)
IntToStr(n) == IF n < 10 THEN Digit(n) ELSE IntToStr(n \div 10) \o Digit(n % 10)

\* str(n).rjust(2, "0") and f"{n:02d}" of an integer n >= 0
Pad2(n) == IF n < 10 THEN "0" \o Digit(n) ELSE IntToStr(n)

\* three digits of a group that is not the leading one
Pad3(n) == Digit(n \div 100) \o Digit((n \div 10) % 10) \o Digit(n % 10)

\* f"{n:,}" with the commas replaced by sep
RECURSIVE Grouped(_, _)
Grouped(n, sep) ==
    IF n < 1000 THEN IntToStr(n)
    ELSE Grouped(n \div 1000, sep) \o sep \o Pad3(n % 1000)

\* f"{value:,.2f}" of an amount >= 0 with the separators replaced
FormatGrouped2(value, sep, point) ==
    LET v == round2(value) IN
    Grouped(v \div Scale, sep) \o point \o Pad2((v % Scale) \div CentUnits)

\* fmt_amount_receipt
fmt_amount_receipt(amount) == FormatGrouped2(amount, " ", ".")

\* fmt_amount_fr_comma
fmt_amount_fr_comma(amount) == FormatGrouped2(amount, " ", ",")

\* int(math.floor(float(amount)))
whole_part_of(amount) == amount \div Scale

\* Python's round() of num/den to an integer: nearest, ties to even
py_round(num, den) ==
    LET q == num \div den
        r == num % den
    IN  IF 2 * r < den THEN q
        ELSE IF 2 * r > den THEN q + 1
        ELSE IF q % 2 = 0 THEN q ELSE q + 1

\* int(round((amount - whole_part) * 100.0))
cents_of(amount) == py_round(amount % Scale, CentUnits)

\* a Python list: units[n] of the source is units[n + 1] here
units == <<"Zero", "Un", "Deux", "Trois", "Quatre", "Cinq", "Six", "Sept",
           "Huit", "Neuf", "Dix", "Onze", "Douze", "Treize", "Quatorze",
           "Quinze", "Seize", "Dix Sept", "Dix Huit", "Dix Neuf">>

tens == <<"", "", "Vingt", "Trente", "Quarante", "Cinquante", "Soixante">>

\* number_to_words_fr.two_digits, 1 <= n <= 99
RECURSIVE two_digits(_)
two_digits(n) ==
    IF n < 20 THEN units[n + 1]
    ELSE IF n < 70 THEN
        (IF n % 10 = 0 THEN tens[(n \div 10) + 1]
         ELSE tens[(n \div 10) + 1] \o " " \o units[(n % 10) + 1])
    ELSE IF n < 80 THEN "Soixante " \o two_digits(n - 60)
    ELSE IF n = 80 THEN "Quatre Vingt"
    ELSE "Quatre Vingt " \o two_digits(n - 80)

\* number_to_words_fr.three_digits, 1 <= n <= 999
three_digits(n) ==
    LET hundred == n \div 100
        rest == n % 100
        hundred_part == IF hundred = 0 THEN ""
                        ELSE IF hundred = 1 THEN "Cent"
                        ELSE units[hundred + 1] \o " Cent"
    IN  IF rest = 0 THEN hundred_part
        ELSE IF hundred_part = "" THEN two_digits(rest)
        ELSE hundred_part \o " " \o two_digits(rest)

\* " ".join(parts) of a sequence of strings
RECURSIVE JoinSpace(_)
JoinSpace(parts) ==
    IF Len(parts) = 0 THEN ""
    ELSE IF Len(parts) = 1 THEN parts[1]
    ELSE parts[1] \o " " \o JoinSpace(Tail(parts))

\* number_to_words_fr.to_words, n >= 0
to_words(n) ==
    IF n = 0 THEN "Zero"
    ELSE LET millions == n \div 1000000
             thousands == (n % 1000000) \div 1000
             rest == n % 1000
             p1 == IF millions > 0
                   THEN <<three_digits(millions) \o " Million"
                          \o (IF millions > 1 THEN "s" ELSE "")>>
                   ELSE <<>>
             p2 == IF thousands > 0
                   THEN <<IF thousands = 1 THEN "Mille"
                          ELSE three_digits(thousands) \o " Mille">>
                   ELSE <<>>
             p3 == IF rest > 0 THEN <<three_digits(rest)>> ELSE <<>>
         IN  JoinSpace(p1 \o p2 \o p3)

\* generate_document.number_to_words_fr of an amount
number_to_words_fr(num) == to_words(whole_part_of(num))

-----------------------------------------------------------------------------
(* generate_role.number_to_words_fr *)

\* s.strip() of a string, for the space character
RECURSIVE StripLeft(_)
StripLeft(s) ==
    IF Len(s) > 0 /\ SubSeq(s, 1, 1) = " " THEN StripLeft(SubSeq(s, 2, Len(s)))
    ELSE s

RECURSIVE StripRight(_)
StripRight(s) ==
    IF Len(s) > 0 /\ SubSeq(s, Len(s), Len(s)) = " "
    THEN StripRight(SubSeq(s, 1, Len(s) - 1))
    ELSE s

Strip(s) == StripLeft(StripRight(s))

\* Python lists of generate_role: role_units[n + 1] is units[n] of the source
role_units ==
    <<"", "Un", "Deux", "Trois", "Quatre", "Cinq", "Six", "Sept", "Huit",
      "Neuf">>

teens ==
    <<"Dix", "Onze", "Douze", "Treize", "Quatorze", "Quinze", "Seize",
      "Dix Sept", "Dix Huit", "Dix Neuf">>

role_tens ==
    <<"", "", "Vingt", "Trente", "Quarante", "Cinquante", "Soixante",
      "Soixante Dix", "Quatre Vingt", "Quatre Vingt Dix">>

\* generate_role.number_to_words_fr.convert_below_hundred, 0 <= n <= 99
convert_below_hundred(n) ==
    IF n < 10 THEN role_units[n + 1]
    ELSE IF n < 20 THEN teens[(n - 10) + 1]
    ELSE IF n % 10 = 0 THEN role_tens[(n \div 10) + 1]
    ELSE IF n % 10 = 1 /\ (n \div 10) \in {2, 3, 4, 5, 6}
        THEN Strip(role_tens[(n \div 10) + 1] \o " Et "
                   \o role_units[(n % 10) + 1])
    ELSE Strip(role_tens[(n \div 10) + 1] \o " " \o role_units[(n % 10) + 1])

\* generate_role.number_to_words_fr.convert_below_thousand, 0 <= n <= 999
convert_below_thousand(n) ==
    Strip((IF n \div 100 > 0
           THEN Strip(role_units[(n \div 100) + 1] \o " Cent")
                \o (IF n % 100 > 0 THEN " " ELSE "")
           ELSE "")
          \o (IF n % 100 > 0 THEN convert_below_hundred(n % 100) ELSE ""))

\* generate_role.number_to_words_fr.convert, n >= 0
RECURSIVE convert(_)
convert(n) ==
    IF n < 1000 THEN convert_below_thousand(n)
    ELSE IF n < 1000000 THEN
        Strip((IF n \div 1000 = 1 THEN "Mille"
               ELSE convert_below_thousand(n \div 1000) \o " Mille")
              \o (IF n % 1000 > 0
                  THEN " " \o convert_below_thousand(n % 1000) ELSE ""))
    ELSE Strip((IF n \div 1000000 = 1 THEN "Un Million"
                ELSE convert_below_thousand(n \div 1000000) \o " Millions")
               \o (IF n % 1000000 > 0
                   THEN " " \o convert(n % 1000000) ELSE ""))

\* generate_role.number_to_words_fr of the whole number n
role_to_words(n) == IF n = 0 THEN "Zero" ELSE convert(n)

\* generate_role.number_to_words_fr of an amount
role_number_to_words_fr(num) == role_to_words(whole_part_of(num))

\* one character of s.upper(), for the characters of the number words
UpperChar(c) ==
    CASE c = "a" -> "A" [] c = "c" -> "C" [] c = "d" -> "D" [] c = "e" -> "E"
      [] c = "f" -> "F" [] c = "g" -> "G" [] c = "h" -> "H" [] c = "i" -> "I"
      [] c = "l" -> "L" [] c = "n" -> "N" [] c = "o" -> "O" [] c = "p" -> "P"
      [] c = "q" -> "Q" [] c = "r" -> "R" [] c = "s" -> "S" [] c = "t" -> "T"
      [] c = "u" -> "U" [] c = "x" -> "X" [] c = "z" -> "Z"
      [] OTHER -> c

\* s.upper()
RECURSIVE Upper(_)
Upper(s) ==
    IF Len(s) = 0 THEN ""
    ELSE UpperChar(SubSeq(s, 1, 1)) \o Upper(SubSeq(s, 2, Len(s)))

-----------------------------------------------------------------------------
(* Worker records *)

\* A row of report.rows.  days_worked, total_days, amount and total_amount
\* are optional numbers; presenceDays is a list whose entries are <<d>>
\* for the integer d, <<d, t>> for the number d + t/10 with a fraction
\* (t in 1..9) and <<>> for an entry int() rejects (null, text);
\* salaire_journalier is the daily rate (0 when absent); monthlyStats is a
\* list of [days_worked, amount] records read by the RCAR statements only.
Worker(id, dw, td, am, ta, pd, sj, dn, ms) ==
    [id |-> id, days_worked |-> dw, total_days |-> td, amount |-> am,
     total_amount |-> ta, presenceDays |-> pd, salaire_journalier |-> sj,
     date_naissance |-> dn, monthlyStats |-> ms]

\* sum of field f over a sequence of records
RECURSIVE SumField(_, _)
SumField(s, f) == IF s = <<>> THEN 0 ELSE Head(s)[f] + SumField(Tail(s), f)

-----------------------------------------------------------------------------
(* build_workers_financial_rows *)

\* int(w.get("days_worked") or w.get("total_days") or 0)
row_days(w) == FirstTruthy(w.days_worked, w.total_days, 0)

\* float(w.get("amount") or w.get("total_amount") or 0.0)
row_gross(w) == FirstTruthy(w.amount, w.total_amount, 0)

\* the "continue" of the loop
row_skipped(w) == row_days(w) <= 0 \/ row_gross(w) <= 0

\* the amount the loop adds to totals["gross"]
gross_accumulated(gross) == gross

\* mutant: the net is accumulated before it is rounded
net_accumulated_unrounded(gross, deduction) == gross - deduction

\* the amount the loop adds to totals["net"]
net_accumulated(gross, deduction) == round2(gross - deduction)

\* mutant: the row is put at the head of rows_out
build_add_prepending(acc, w, days, gross, deduction, net) ==
    [rows |-> <<[id |-> w.id, days |-> days, gross |-> round2(gross),
                 deduction |-> round2(deduction), net |-> round2(net)]>>
              \o acc.rows,
     totals |-> [days |-> acc.totals.days + days,
                 gross |-> acc.totals.gross + gross_accumulated(gross),
                 deduction |-> acc.totals.deduction + deduction,
                 net |-> acc.totals.net + net]]

\* the accumulation and rows_out.append of one iteration
build_add(acc, w, days, gross, deduction, net) ==
    [rows |-> Append(acc.rows,
         [id |-> w.id, days |-> days, gross |-> round2(gross),
          deduction |-> round2(deduction), net |-> round2(net)]),
     totals |-> [days |-> acc.totals.days + days,
                 gross |-> acc.totals.gross + gross_accumulated(gross),
                 deduction |-> acc.totals.deduction + deduction,
                 net |-> acc.totals.net + net]]

\* deduction and net of one iteration
build_deduct(acc, w, days, gross, deduction) ==
    build_add(acc, w, days, gross, deduction,
              net_accumulated(gross, deduction))

\* one iteration of the loop over report_rows
build_step(acc, w, ref_date, age_limit) ==
    IF row_skipped(w) THEN acc
    ELSE build_deduct(acc, w, row_days(w), row_gross(w),
                      calculate_igr_deduction(w.date_naissance, ref_date,
                                              row_gross(w), age_limit))

RECURSIVE build_loop(_, _, _, _)
build_loop(acc, report_rows, ref_date, age_limit) ==
    IF report_rows = <<>> THEN acc
    ELSE build_loop(build_step(acc, Head(report_rows), ref_date, age_limit),
                    Tail(report_rows), ref_date, age_limit)

\* totals = {k: round2(v) for k, v in totals.items()}
round_totals(r) ==
    [rows |-> r.rows,
     totals |-> [days |-> r.totals.days,
                 gross |-> round2(r.totals.gross),
                 deduction |-> round2(r.totals.deduction),
                 net |-> round2(r.totals.net)]]

EmptyAcc ==
    [rows |-> <<>>,
     totals |-> [days |-> 0, gross |-> 0, deduction |-> 0, net |-> 0]]

build_workers_financial_rows(report_rows, ref_date, age_limit) ==
    round_totals(build_loop(EmptyAcc, report_rows, ref_date, age_limit))

-----------------------------------------------------------------------------
(* calculate_range_net_total *)

\* a JSON number d + tenth/10 with a fraction
Fraction(d, tenth) == <<d, tenth>>

\* int(d) succeeds
IsDayNumber(d) == d # None

\* day_num = int(d): an integer is kept, a number with a fraction is
\* truncated to its whole part (d >= 0)
int_of(d) == d[1]

\* mutant: the end day of the range is not counted
RECURSIVE days_in_range_end_excluded(_, _, _)
days_in_range_end_excluded(presence_days, start_day, end_day) ==
    IF presence_days = <<>> THEN 0
    ELSE LET d == Head(presence_days)
             n == days_in_range_end_excluded(Tail(presence_days), start_day,
                                             end_day)
         IN  IF ~IsDayNumber(d) THEN n
             ELSE IF start_day <= int_of(d) /\ int_of(d) < end_day THEN n + 1
                  ELSE n

\* the inner loop: presence days with start_day <= day_num <= end_day
RECURSIVE days_in_range(_, _, _)
days_in_range(presence_days, start_day, end_day) ==
    IF presence_days = <<>> THEN 0
    ELSE LET d == Head(presence_days)
             n == days_in_range(Tail(presence_days), start_day, end_day)
         IN  IF ~IsDayNumber(d) THEN n
             ELSE IF start_day <= int_of(d) /\ int_of(d) <= end_day THEN n + 1
                  ELSE n

\* the two "continue"s of the loop
range_skipped(w, start_day, end_day) ==
    \/ w.salaire_journalier <= 0
    \/ days_in_range(w.presenceDays, start_day, end_day) <= 0

\* gross of one worker: round2(days_in_range * daily_salary)
range_gross(w, start_day, end_day) ==
    round2(days_in_range(w.presenceDays, start_day, end_day)
           * w.salaire_journalier)

\* deduction of one worker
range_deduction(w, ref_date, gross, age_limit) ==
    calculate_igr_deduction(w.date_naissance, ref_date, gross, age_limit)

\* int(round(net * 100)) with net = round2(gross - deduction)
range_cents(gross, deduction) == py_round(round2(gross - deduction), CentUnits)

\* the net of one worker with its gross computed
range_net_of_gross(w, ref_date, gross, age_limit) ==
    range_cents(gross, range_deduction(w, ref_date, gross, age_limit))

\* what one worker adds to total_cents
range_net_cents(w, ref_date, start_day, end_day, age_limit) ==
    IF range_skipped(w, start_day, end_day) THEN 0
    ELSE range_net_of_gross(w, ref_date,
                            range_gross(w, start_day, end_day), age_limit)

RECURSIVE range_loop(_, _, _, _, _)
range_loop(report_rows, ref_date, start_day, end_day, age_limit) ==
    IF report_rows = <<>> THEN 0
    ELSE range_net_cents(Head(report_rows), ref_date, start_day, end_day,
                         age_limit)
         + range_loop(Tail(report_rows), ref_date, start_day, end_day,
                      age_limit)

\* total_cents / 100.0, with ref_date = date(year, month, end_day)
calculate_range_net_total(report_rows, year, month, start_day, end_day, age_limit) ==
    range_loop(report_rows, MkDate(year, month, end_day), start_day, end_day,
               age_limit) * CentUnits

-----------------------------------------------------------------------------
(* The row loop of generate_rcar_docx *)

\* prelevement_rate of generate_rcar_salariale_docx, in percent
RATE_SALARIALE == 6
\* prelevement_rate of generate_rcar_patronale_docx, in percent
RATE_PATRONALE == 12

\* total_days, else days_worked, else the sum over monthlyStats, else 0
rcar_days(w) ==
    IF w.total_days # None THEN w.total_days[1]
    ELSE IF w.days_worked # None THEN w.days_worked[1]
    ELSE IF w.monthlyStats # <<>> THEN SumField(w.monthlyStats, "days_worked")
    ELSE 0

\* round2 of total_amount, else amount, else the sum over monthlyStats
rcar_brut(w) ==
    round2(IF w.total_amount # None THEN w.total_amount[1]
           ELSE IF w.amount # None THEN w.amount[1]
           ELSE IF w.monthlyStats # <<>> THEN SumField(w.monthlyStats, "amount")
           ELSE 0)

\* the "continue" of the loop
rcar_skipped(w) == rcar_days(w) <= 0 /\ rcar_brut(w) <= 0

\* prelev of one worker
rcar_prelev(w, prelevement_rate) ==
    IF rcar_brut(w) > 0 THEN round2(TimesRate(rcar_brut(w), prelevement_rate))
    ELSE 0

\* round2(num / den) for num >= 0, den > 0
round2_div(num, den) ==
    ((2 * num + den * CentUnits) \div (2 * den * CentUnits)) * CentUnits

\* daily_price of one worker, 0 standing for None
rcar_price(w) ==
    IF w.salaire_journalier > 0 THEN w.salaire_journalier
    ELSE IF rcar_days(w) > 0 /\ rcar_brut(w) > 0
         THEN round2_div(rcar_brut(w), rcar_days(w))
         ELSE 0

\* table_rows.append and the accumulation of one iteration,
\* with versement = prelev
rcar_add(acc, w, days, brut, prelev, price) ==
    [rows |-> Append(acc.rows,
         [id |-> w.id, days |-> days, price |-> price,
          gross |-> Max(brut, 0), deduction |-> prelev, net |-> prelev]),
     totals |-> [days |-> acc.totals.days + days,
                 gross |-> acc.totals.gross + brut,
                 deduction |-> acc.totals.deduction + prelev,
                 net |-> acc.totals.net + prelev]]

rcar_step(acc, w, prelevement_rate) ==
    IF rcar_skipped(w) THEN acc
    ELSE rcar_add(acc, w, rcar_days(w), rcar_brut(w),
                  rcar_prelev(w, prelevement_rate), rcar_price(w))

RECURSIVE rcar_loop(_, _, _)
rcar_loop(acc, report_rows, prelevement_rate) ==
    IF report_rows = <<>> THEN acc
    ELSE rcar_loop(rcar_step(acc, Head(report_rows), prelevement_rate),
                   Tail(report_rows), prelevement_rate)

\* table_rows and total_days, total_brut, total_prelev, total_versement
\* (as totals.days, .gross, .deduction, .net)
\* total_brut, total_prelev and total_versement are rounded after the loop
rcar_round_totals(r) ==
    [rows |-> r.rows,
     totals |-> [days |-> r.totals.days,
                 gross |-> round2(r.totals.gross),
                 deduction |-> round2(r.totals.deduction),
                 net |-> round2(r.totals.net)]]

rcar_rows_totals(report_rows, prelevement_rate) ==
    rcar_round_totals(rcar_loop([rows |-> <<>>,
                                 totals |-> [days |-> 0, gross |-> 0,
                                             deduction |-> 0, net |-> 0]],
                                report_rows, prelevement_rate))

-----------------------------------------------------------------------------
(* Requests and outcomes *)

\* The payload of a request, without its documentType:
\*   year, month, quarter   integers, 0 when the key is absent
\*   rows                   report.rows
\*   period_months          report.period.months
\*   outputDir              "" when absent
\*   today                  date.today() on the day of the run
\*   options                rcarAgeLimit and bordereauNumber optional
\*                          integers, decisionNumber and decisionDate texts
Payload(year, month, quarter, rows, period_months, outputDir, options, today) ==
    [year |-> year, month |-> month, quarter |-> quarter, rows |-> rows,
     period_months |-> period_months, outputDir |-> outputDir,
     options |-> options, today |-> today]

Options(rcarAgeLimit, decisionNumber, decisionDate, bordereauNumber) ==
    [rcarAgeLimit |-> rcarAgeLimit, decisionNumber |-> decisionNumber,
     decisionDate |-> decisionDate, bordereauNumber |-> bordereauNumber]

ZeroTotals == [days |-> 0, gross |-> 0, deduction |-> 0, net |-> 0]

\* What one run leaves behind: the JSON object written to standard output
\* (success, message, docxFileName) and the figures the document shows
\* (the net total with its digit and word strings, the listed rows, the
\* totals, the printed period).
Outcome(status, message, total_net, amount_digits, amount_words, rows, totals, period) ==
    [status |-> status, message |-> message, docxFileName |-> "",
     total_net |-> total_net, amount_digits |-> amount_digits,
     amount_words |-> amount_words, rows |-> rows, totals |-> totals,
     period |-> period]

NotRun == Outcome("none", "", 0, "", "", <<>>, ZeroTotals, <<"", "">>)

\* the run raised: {"success": false, "message": message}
Failed(message) ==
    Outcome("error", message, 0, "", "", <<>>, ZeroTotals, <<"", "">>)

\* int(options.get("rcarAgeLimit") or 60)
DEFAULT_AGE_LIMIT == 60
age_limit_of(options) ==
    IF Truthy(options.rcarAgeLimit) THEN options.rcarAgeLimit[1]
    ELSE DEFAULT_AGE_LIMIT

\* year <= 0 or month <= 0 or month > 12
bad_year_month(p) == p.year <= 0 \/ p.month <= 0 \/ p.month > 12

\* amount_to_words_dhs_cents
amount_to_words_dhs_cents(amount) ==
    number_to_words_fr(amount) \o " dhs " \o Pad2(cents_of(amount)) \o " Cts"

-----------------------------------------------------------------------------
(* The monthly documents.  Each generator repeats the same lines: the age  *)
(* limit, the month's last day, build_workers_financial_rows, then         *)
(* total_net, amount_digits and amount_words.                              *)

\* total_net, amount_digits, amount_words of generate_recu_docx
recu_amounts(total_net, totals) ==
    Outcome("ok", "", total_net, fmt_amount_receipt(total_net),
            number_to_words_fr(total_net) \o " dhs "
            \o Pad2(cents_of(total_net)) \o " Cts",
            <<>>, totals, <<"", "">>)

recu_totals(totals) == recu_amounts(round2(totals.net), totals)

generate_recu_docx(p) ==
    IF bad_year_month(p)
    THEN Failed("Missing required fields for recu: year, month")
    ELSE recu_totals(build_workers_financial_rows(
                         p.rows, month_end(p.year, p.month),
                         age_limit_of(p.options)).totals)

\* total_net, amount_digits, amount_words of
\* generate_demande_autorisation_docx
demande_amounts(total_net, totals) ==
    Outcome("ok", "", total_net, fmt_amount_receipt(total_net),
            number_to_words_fr(total_net) \o " dhs "
            \o Pad2(cents_of(total_net)) \o " Cts",
            <<>>, totals, <<"", "">>)

demande_totals(totals) == demande_amounts(round2(totals.net), totals)

generate_demande_autorisation_docx(p) ==
    IF bad_year_month(p)
    THEN Failed("Missing required fields for demande-autorisation: year, month")
    ELSE demande_totals(build_workers_financial_rows(
                            p.rows, month_end(p.year, p.month),
                            age_limit_of(p.options)).totals)

\* total_net, amount_digits, amount_words of
\* generate_certificat_paiement_docx
certificat_amounts(total_net, totals) ==
    Outcome("ok", "", total_net, fmt_amount_receipt(total_net),
            number_to_words_fr(total_net) \o " dhs "
            \o Pad2(cents_of(total_net)) \o " Cts",
            <<>>, totals, <<"", "">>)

\* the decision reference is checked after the totals are computed
certificat_totals(p, totals) ==
    IF p.options.decisionNumber = "" \/ p.options.decisionDate = ""
    THEN Failed("Missing CERTIFICAT DE PAIEMENT decision reference in configuration (decision number/date).")
    ELSE certificat_amounts(round2(totals.net), totals)

generate_certificat_paiement_docx(p) ==
    IF bad_year_month(p)
    THEN Failed("Missing required fields for certificat-paiement: year, month")
    ELSE certificat_totals(p, build_workers_financial_rows(
                                  p.rows, month_end(p.year, p.month),
                                  age_limit_of(p.options)).totals)

\* total_net, amount_digits, amount_words of generate_ordre_paiement_docx
ordre_amounts(total_net, totals) ==
    Outcome("ok", "", total_net, fmt_amount_receipt(total_net),
            number_to_words_fr(total_net) \o " dhs "
            \o Pad2(cents_of(total_net)) \o " Cts",
            <<>>, totals, <<"", "">>)

ordre_totals(totals) == ordre_amounts(round2(totals.net), totals)

generate_ordre_paiement_docx(p) ==
    IF bad_year_month(p)
    THEN Failed("Missing required fields for ordre-paiement: year, month")
    ELSE ordre_totals(build_workers_financial_rows(
                          p.rows, month_end(p.year, p.month),
                          age_limit_of(p.options)).totals)

\* total_net, amount_digits, amount_words of generate_mandat_paiement_docx
mandat_amounts(total_net, totals) ==
    Outcome("ok", "", total_net, fmt_amount_receipt(total_net),
            number_to_words_fr(total_net) \o " dhs "
            \o Pad2(cents_of(total_net)) \o " Cts",
            <<>>, totals, <<"", "">>)

mandat_totals(totals) == mandat_amounts(round2(totals.net), totals)

\* mutant: the reference date is the first day of the month
generate_mandat_paiement_docx_first_day(p) ==
    IF bad_year_month(p)
    THEN Failed("Missing required fields for mandat-paiement: year, month")
    ELSE mandat_totals(build_workers_financial_rows(
                           p.rows, MkDate(p.year, p.month, 1),
                           age_limit_of(p.options)).totals)

generate_mandat_paiement_docx(p) ==
    IF bad_year_month(p)
    THEN Failed("Missing required fields for mandat-paiement: year, month")
    ELSE mandat_totals(build_workers_financial_rows(
                           p.rows, month_end(p.year, p.month),
                           age_limit_of(p.options)).totals)

-----------------------------------------------------------------------------
(* The bordereau *)

\* combined_net, and range_net of the only range ("combined", 1, last_day)
bordereau_combined_net(p) ==
    calculate_range_net_total(p.rows, p.year, p.month, 1,
                              monthrange(p.year, p.month),
                              age_limit_of(p.options))

\* the guard on combined_net, then bord_amount and bord_words;
\* the message of the source is "Aucune donnée de paie pour cette période"
bordereau_amounts(combined_net) ==
    IF combined_net <= 0
    THEN Failed("Aucune donnee de paie pour cette periode")
    ELSE Outcome("ok", "", combined_net, fmt_amount_fr_comma(combined_net),
                 amount_to_words_dhs_cents(combined_net), <<>>,
                 [ZeroTotals EXCEPT !.net = combined_net], <<"", "">>)

generate_bordereau_docx(p) ==
    IF bad_year_month(p)
    THEN Failed("Missing required fields for bordereau: year, month")
    ELSE bordereau_amounts(bordereau_combined_net(p))

-----------------------------------------------------------------------------
(* The RCAR statements *)

\* quarter_months
quarter_months(q) ==
    IF q = 1 THEN <<1, 2, 3>> ELSE IF q = 2 THEN <<4, 5, 6>>
    ELSE IF q = 3 THEN <<7, 8, 9>> ELSE IF q = 4 THEN <<10, 11, 12>>
    ELSE <<>>

\* f"{d.day:02d}{sep}{d.month:02d}{sep}{d.year}"
FmtDate(d, sep) ==
    Pad2(d.day) \o sep \o Pad2(d.month) \o sep \o IntToStr(d.year)

InMonthRange(m) == 1 <= m /\ m <= 12

\* period_months: the listed months within 1..12, else the quarter's months
rcar_period_months(p) ==
    LET listed == SelectSeq(p.period_months, InMonthRange) IN
    IF listed = <<>> /\ p.quarter \in 1..4 THEN quarter_months(p.quarter)
    ELSE listed

\* <<d_from, d_to>>: day 1 of period_months[0] and the last day of
\* period_months[-1]
rcar_period_dates(year, months) ==
    <<MkDate(year, months[1], 1), month_end(year, months[Len(months)])>>

\* <<period_from_s, period_to_s>>
rcar_period_of(year, months) ==
    IF year > 0 /\ months # <<>> /\ year <= 9999
    THEN <<FmtDate(rcar_period_dates(year, months)[1], "/"),
           FmtDate(rcar_period_dates(year, months)[2], "/")>>
    ELSE <<"", "">>

rcar_period(p) == rcar_period_of(p.year, rcar_period_months(p))

\* the statement shows the rows, the totals and the period
rcar_outcome(t, period) ==
    Outcome("ok", "", t.totals.net, "", "", t.rows, t.totals, period)

generate_rcar_docx(p, prelevement_rate) ==
    rcar_outcome(rcar_rows_totals(p.rows, prelevement_rate), rcar_period(p))

generate_rcar_salariale_docx(p) == generate_rcar_docx(p, RATE_SALARIALE)

generate_rcar_patronale_docx(p) == generate_rcar_docx(p, RATE_PATRONALE)

-----------------------------------------------------------------------------
(* generate_generic_docx *)

MonthlyTypes ==
    {"recu-combined", "demande-autorisation", "certificat-paiement",
     "ordre-paiement", "mandat-paiement"}

RcarTypes == {"rcar-salariale", "rcar-patronale"}

\* the types that fall through to the generic layout:
\* two known ones and one that DOC_FILE_BASE_MAP does not know
GenericTypes == {"depense-regie-recapitulatif", "reference-values", "note"}

DocTypes == MonthlyTypes \cup {"bordereau"} \cup RcarTypes \cup GenericTypes

\* the generic layout: the worker table and the totals line
generic_table(fin) ==
    Outcome("ok", "", fin.totals.net, "", "", fin.rows, fin.totals,
            <<"", "">>)

\* the reference date: the month's last day, else date.today()
generic_ref_date(p) ==
    IF p.year # 0 /\ p.month # 0 THEN month_end(p.year, p.month)
    ELSE p.today

generic_layout(p) ==
    IF p.rows = <<>> THEN
        Outcome("ok", "", 0, "", "", <<>>, ZeroTotals, <<"", "">>)
    ELSE IF p.year # 0 /\ p.month # 0
            /\ ~(p.month \in 1..12 /\ p.year \in 1..9999)
        THEN Failed("bad month number; must be 1-12")
    ELSE generic_table(build_workers_financial_rows(
                           p.rows, generic_ref_date(p),
                           age_limit_of(p.options)))

generate_generic_docx(document_type, p) ==
    IF document_type = "recu-combined" THEN generate_recu_docx(p)
    ELSE IF document_type = "demande-autorisation"
        THEN generate_demande_autorisation_docx(p)
    ELSE IF document_type \in {"certificat-paiement",
                               "certificat-paiement-combined"}
        THEN generate_certificat_paiement_docx(p)
    ELSE IF document_type = "ordre-paiement"
        THEN generate_ordre_paiement_docx(p)
    ELSE IF document_type = "mandat-paiement"
        THEN generate_mandat_paiement_docx(p)
    ELSE IF document_type = "bordereau" THEN generate_bordereau_docx(p)
    ELSE IF document_type = "rcar-salariale"
        THEN generate_rcar_salariale_docx(p)
    ELSE IF document_type = "rcar-patronale"
        THEN generate_rcar_patronale_docx(p)
    ELSE generic_layout(p)

-----------------------------------------------------------------------------
(* Text of file names and of script names *)

\* the characters of [0-9A-Za-z._-]
SafeChars == "0123456789ABCDEFGHIJKLMNOPQRSTUVWXYZabcdefghijklmnopqrstuvwxyz._-"

IsSafeChar(c) == \E i \in 1..Len(SafeChars) : SubSeq(SafeChars, i, i) = c

\* text.replace("\\", "-").replace("/", "-")
RECURSIVE ReplaceSeparators(_, _)
ReplaceSeparators(s, with) ==
    IF Len(s) = 0 THEN ""
    ELSE (IF SubSeq(s, 1, 1) \in {"\\", "/"} THEN with ELSE SubSeq(s, 1, 1))
         \o ReplaceSeparators(SubSeq(s, 2, Len(s)), with)

\* re.sub(r"[^0-9A-Za-z._-]+", "_", text); in_run: the character before
\* was replaced already
RECURSIVE SubUnsafeRuns(_, _)
SubUnsafeRuns(s, in_run) ==
    IF Len(s) = 0 THEN ""
    ELSE IF IsSafeChar(SubSeq(s, 1, 1))
        THEN SubSeq(s, 1, 1) \o SubUnsafeRuns(SubSeq(s, 2, Len(s)), FALSE)
    ELSE (IF in_run THEN "" ELSE "_")
         \o SubUnsafeRuns(SubSeq(s, 2, Len(s)), TRUE)

\* text.strip("._-")
RECURSIVE StripMarks(_)
StripMarks(s) ==
    IF Len(s) > 0 /\ SubSeq(s, 1, 1) \in {".", "_", "-"}
    THEN StripMarks(SubSeq(s, 2, Len(s)))
    ELSE IF Len(s) > 0 /\ SubSeq(s, Len(s), Len(s)) \in {".", "_", "-"}
    THEN StripMarks(SubSeq(s, 1, Len(s) - 1))
    ELSE s

\* safe_filename_part of a text ("" for a value that is absent)
safe_filename_part(text) ==
    IF StripMarks(SubUnsafeRuns(ReplaceSeparators(Strip(text), "-"), FALSE)) = ""
    THEN "unknown"
    ELSE StripMarks(SubUnsafeRuns(ReplaceSeparators(Strip(text), "-"), FALSE))

\* one character of s.lower(), for the letters of the commands and scripts
LowerChar(c) ==
    CASE c = "A" -> "a" [] c = "C" -> "c" [] c = "D" -> "d" [] c = "E" -> "e"
      [] c = "G" -> "g" [] c = "I" -> "i" [] c = "L" -> "l" [] c = "M" -> "m"
      [] c = "N" -> "n" [] c = "O" -> "o" [] c = "P" -> "p" [] c = "R" -> "r"
      [] c = "T" -> "t" [] c = "U" -> "u" [] c = "Y" -> "y"
      [] OTHER -> c

\* s.lower()
RECURSIVE Lower(_)
Lower(s) ==
    IF Len(s) = 0 THEN ""
    ELSE LowerChar(SubSeq(s, 1, 1)) \o Lower(SubSeq(s, 2, Len(s)))

\* os.path.basename: what follows the last "/"
RECURSIVE basename(_)
basename(s) ==
    IF \E i \in 1..Len(s) : SubSeq(s, i, i) = "/"
    THEN basename(SubSeq(s, 2, Len(s)))
    ELSE s

\* normalize_script_name
normalize_script_name(script_value) ==
    Lower(basename(ReplaceSeparators(Strip(script_value), "/")))

-----------------------------------------------------------------------------
(* File names *)

\* DOC_FILE_BASE_MAP.get(document_type, safe_filename_part(document_type))
doc_file_base(document_type) ==
    CASE document_type = "demande-autorisation" -> "Demande_Autorisation_Paiement"
      [] document_type = "certificat-paiement" -> "Certificat_Paiement"
      [] document_type = "certificat-paiement-combined" -> "Certificat_Paiement"
      [] document_type = "ordre-paiement" -> "Ordre_Paiement"
      [] document_type = "mandat-paiement" -> "Mandat_Paiement"
      [] document_type = "depense-regie-recapitulatif" -> "Depense_Regie_Recapitulatif"
      [] document_type = "reference-values" -> "Valeurs_Reference"
      [] document_type = "bordereau" -> "Bordereau"
      [] document_type = "recu-combined" -> "Recu"
      [] document_type = "rcar-salariale" -> "RCAR"
      [] document_type = "rcar-patronale" -> "RCAR_PATRONALE"
      [] OTHER -> safe_filename_part(document_type)

Named(n) == [raised |-> FALSE, name |-> n]

\* safe_filename_part(options.get("bordereauNumber") or month or "12")
bordereau_number(p) ==
    IF Truthy(p.options.bordereauNumber)
    THEN IntToStr(p.options.bordereauNumber[1])
    ELSE IF p.month # 0 THEN IntToStr(p.month) ELSE "12"

\* the name of an RCAR statement with year and quarter given; date()
\* raises on a month of report.period.months outside 1..12
rcar_filename(base, year, quarter, months) ==
    IF months # <<>> THEN
        (IF IsDate(year, months[1], 1) /\ IsDate(year, months[Len(months)], 1)
         THEN Named(base \o "_" \o IntToStr(year) \o "_T" \o IntToStr(quarter)
                    \o "_" \o FmtDate(rcar_period_dates(year, months)[1], "-")
                    \o "_" \o FmtDate(rcar_period_dates(year, months)[2], "-")
                    \o ".docx")
         ELSE [raised |-> TRUE, name |-> ""])
    ELSE Named(base \o "_" \o IntToStr(year) \o "_T" \o IntToStr(quarter)
               \o "_" \o FmtDate(MkDate(year, 1, 1), "-")
               \o "_" \o FmtDate(MkDate(year, 1, 1), "-") \o ".docx")

\* build_docx_filename: [raised, name]
build_docx_filename(document_type, p) ==
    IF document_type = "bordereau" THEN
        (IF p.year # 0 /\ p.month # 0
         THEN Named(doc_file_base(document_type) \o "_" \o bordereau_number(p)
                    \o "_" \o IntToStr(p.year) \o ".docx")
         ELSE Named(doc_file_base(document_type) \o "_" \o bordereau_number(p)
                    \o ".docx"))
    ELSE IF document_type \in RcarTypes /\ p.year # 0 /\ p.quarter # 0
        THEN rcar_filename(doc_file_base(document_type), p.year, p.quarter,
                           p.period_months)
    ELSE IF p.year # 0 /\ p.month # 0
        THEN Named(doc_file_base(document_type) \o "_" \o Pad2(p.month)
                   \o "_" \o IntToStr(p.year) \o ".docx")
    ELSE IF p.year # 0 /\ p.quarter # 0
        THEN Named(doc_file_base(document_type) \o "_T"
                   \o IntToStr(p.quarter) \o "_" \o IntToStr(p.year)
                   \o ".docx")
    ELSE Named(doc_file_base(document_type) \o ".docx")

\* a or b for two texts, "" standing for a key that is absent
OrText(a, b) == IF a # "" THEN a ELSE b

\* str(month).zfill(2)
Zfill2(s) ==
    IF Len(s) = 0 THEN "00"
    ELSE IF Len(s) = 1
        THEN (IF s \in {"+", "-"} THEN s \o "0" ELSE "0" \o s)
    ELSE s

\* the text is made of decimal digits
IsDigits(s) ==
    Len(s) > 0 /\ \A i \in 1..Len(s) :
                      \E d \in 0..9 : SubSeq(s, i, i) = Digit(d)

\* int(s) of a text of decimal digits
RECURSIVE DigitsToInt(_)
DigitsToInt(s) ==
    IF Len(s) = 0 THEN 0
    ELSE 10 * DigitsToInt(SubSeq(s, 1, Len(s) - 1))
         + (CHOOSE d \in 0..9 : SubSeq(s, Len(s), Len(s)) = Digit(d))

\* the name of an RCAR statement without report.period.months: int(year)
\* takes digits with spaces around them, date() a year of 1..9999
rcar_filename_of_texts(base, year, quarter) ==
    IF IsDigits(Strip(year)) /\ Len(Strip(year)) <= 4
           /\ DigitsToInt(Strip(year)) > 0
    THEN Named(base \o "_" \o year \o "_T" \o quarter \o "_"
               \o FmtDate(MkDate(DigitsToInt(Strip(year)), 1, 1), "-") \o "_"
               \o FmtDate(MkDate(DigitsToInt(Strip(year)), 1, 1), "-")
               \o ".docx")
    ELSE [raised |-> TRUE, name |-> ""]

\* build_docx_filename of a payload whose year, month, quarter and
\* options.bordereauNumber are texts ("" when absent), without
\* report.period.months: [raised, name]
build_docx_filename_of_texts(document_type, year, month, quarter, number) ==
    IF document_type = "bordereau" THEN
        (IF year # "" /\ month # ""
         THEN Named(doc_file_base(document_type) \o "_"
                    \o safe_filename_part(OrText(number, OrText(month, "12")))
                    \o "_" \o year \o ".docx")
         ELSE Named(doc_file_base(document_type) \o "_"
                    \o safe_filename_part(OrText(number, OrText(month, "12")))
                    \o ".docx"))
    ELSE IF document_type \in RcarTypes /\ year # "" /\ quarter # ""
        THEN rcar_filename_of_texts(doc_file_base(document_type), year,
                                    quarter)
    ELSE IF year # "" /\ month # ""
        THEN Named(doc_file_base(document_type) \o "_" \o Zfill2(month)
                   \o "_" \o year \o ".docx")
    ELSE IF year # "" /\ quarter # ""
        THEN Named(doc_file_base(document_type) \o "_T" \o quarter \o "_"
                   \o year \o ".docx")
    ELSE Named(doc_file_base(document_type) \o ".docx")

-----------------------------------------------------------------------------
(* main: one run of the generator for one document type *)

\* os.path.join(output_dir, docx_name)
path_join(output_dir, docx_name) == output_dir \o "/" \o docx_name

\* [outcome, dir, path]: the outcome of the run, the directory ensure_dir
\* created ("" when the run raised before it) and the path doc.save wrote
\* ("" when the run raised before it)
\* after ensure_dir and build_docx_filename: the document is generated
\* and saved at docx_path, or the generator raises
main_generate(output_dir, docx_name, o) ==
    IF o.status = "ok"
    THEN [outcome |-> [o EXCEPT !.docxFileName = docx_name],
          dir |-> output_dir, path |-> path_join(output_dir, docx_name)]
    ELSE [outcome |-> o, dir |-> output_dir, path |-> ""]

\* after ensure_dir: build_docx_filename returns fn or raises
main_named(document_type, p, fn) ==
    IF fn.raised
    THEN [outcome |-> Failed("month must be in 1..12"),
          dir |-> p.outputDir, path |-> ""]
    ELSE main_generate(p.outputDir, fn.name,
                       generate_generic_docx(document_type, p))

main(document_type, p) ==
    IF p.outputDir = "" THEN
        [outcome |-> Failed("Missing required field: outputDir"),
         dir |-> "", path |-> ""]
    ELSE IF document_type = "" THEN
        [outcome |-> Failed("Missing required field: documentType"),
         dir |-> "", path |-> ""]
    ELSE main_named(document_type, p,
                    build_docx_filename(document_type, p))

-----------------------------------------------------------------------------
(* The steps of one run, in the order of the code: the calls that compute  *)
(* pay, ensure_dir, doc.save, and "raise" when the run ends on an error    *)

\* the five monthly generators: the check of year and month, then
\* build_workers_financial_rows, then (certificat-paiement only) the
\* check of the decision reference, then doc.save
monthly_steps(document_type, p) ==
    IF bad_year_month(p) THEN <<"raise">>
    ELSE IF document_type \in {"certificat-paiement",
                               "certificat-paiement-combined"}
            /\ (p.options.decisionNumber = "" \/ p.options.decisionDate = "")
        THEN <<"build_workers_financial_rows", "raise">>
    ELSE <<"build_workers_financial_rows", "save">>

\* generate_bordereau_docx: the check of year and month, then
\* calculate_range_net_total, then the guard on combined_net
bordereau_steps(p) ==
    IF bad_year_month(p) THEN <<"raise">>
    ELSE IF bordereau_combined_net(p) <= 0
        THEN <<"calculate_range_net_total", "raise">>
    ELSE <<"calculate_range_net_total", "save">>

\* the generic layout: month_start_end raises on a month outside 1..12
generic_steps(p) ==
    IF p.rows = <<>> THEN <<"save">>
    ELSE IF generic_layout(p).status = "ok"
        THEN <<"build_workers_financial_rows", "save">>
    ELSE <<"raise">>

\* generate_generic_docx
generate_steps(document_type, p) ==
    IF document_type \in MonthlyTypes \cup {"certificat-paiement-combined"}
    THEN monthly_steps(document_type, p)
    ELSE IF document_type = "bordereau" THEN bordereau_steps(p)
    ELSE IF document_type \in RcarTypes THEN <<"rcar_rows", "save">>
    ELSE generic_steps(p)

\* main of generate_document.py and run_generate_document of the backend
main_steps(document_type, p) ==
    IF p.outputDir = "" \/ document_type = "" THEN <<"raise">>
    ELSE IF build_docx_filename(document_type, p).raised
        THEN <<"ensure_dir", "raise">>
    ELSE <<"ensure_dir">> \o generate_steps(document_type, p)

-----------------------------------------------------------------------------
(* The entry points: backend/main.py, generate_document.py and            *)
(* generate_role.py run as programs                                        *)

\* the JSON objects written to standard output
SuccessObject(name, path) ==
    [success |-> TRUE, docxFileName |-> name, docxFilePath |-> path]

\* result of generate_role.main
RoleResultObject(name, path) == [docxFileName |-> name, docxFilePath |-> path]

ErrorObject(message) == [success |-> FALSE, message |-> message]

\* the object of the ModuleNotFoundError handler of the backend
DependencyObject(exc) ==
    [success |-> FALSE,
     message |-> "Missing Python dependency for backend executable. Rebuild with PyInstaller after installing backend/requirements.txt.",
     error |-> exc]

PingObject == [success |-> TRUE, status |-> "ok"]

\* What one process leaves behind: the objects written to standard output,
\* its exit code, the directory made by ensure_dir and the path written by
\* doc.save ("" when not reached), and the steps it executed
Process(stdout, exit, dir, path, steps) ==
    [stdout |-> stdout, exit |-> exit, dir |-> dir, path |-> path,
     steps |-> steps]

\* the run ends on the exception handler that writes {"success": false}
Raised(message, exit, dir, steps) ==
    Process(<<ErrorObject(message)>>, exit, dir, "", steps)

\* the payload of a role request: texts, "" when the key is absent;
\* sections is the number of sections
RolePayload(outputDir, safeStart, periodStart, safeEnd, periodEnd, sections) ==
    [outputDir |-> outputDir, safeStart |-> safeStart,
     periodStart |-> periodStart, safeEnd |-> safeEnd,
     periodEnd |-> periodEnd, sections |-> sections]

\* docx_name of the role document
role_docx_name(r) ==
    "role_journees_" \o safe_filename_part(OrText(r.safeStart, r.periodStart))
    \o "_" \o safe_filename_part(OrText(r.safeEnd, r.periodEnd)) \o ".docx"

\* generate_document.main after the checks of main, with python-docx
\* missing: generate_generic_docx raises RuntimeError at its first lines
document_without_docx(document_type, p, exit) ==
    IF main_steps(document_type, p)[1] = "raise"
    THEN Raised(main(document_type, p).outcome.message, exit, "", <<"raise">>)
    ELSE IF build_docx_filename(document_type, p).raised
    THEN Raised(main(document_type, p).outcome.message, exit, p.outputDir,
                <<"ensure_dir", "raise">>)
    ELSE Raised("Missing Python dependency for Word generation. Install: python-docx",
                exit, p.outputDir, <<"ensure_dir", "raise">>)

\* the process of a run r of main with the steps s
document_process(r, s) ==
    IF r.outcome.status = "ok"
    THEN Process(<<SuccessObject(r.outcome.docxFileName, r.path)>>, 0,
                 r.dir, r.path, s)
    ELSE Raised(r.outcome.message, 1, r.dir, s)

\* generate_document.py run as a program: main and the handler of
\* __main__, which exits with 1
document_program(document_type, p, docx_installed) ==
    IF docx_installed
    THEN document_process(main(document_type, p),
                          main_steps(document_type, p))
    ELSE document_without_docx(document_type, p, 1)

\* generate_role.main and run_generate_role up to the document:
\* raised is the exit code of the handler, ok the object of a success
role_run(r, docx_installed, raised, missing, ok) ==
    IF r.outputDir = ""
    THEN Raised("Missing required field: outputDir", raised, "", <<"raise">>)
    ELSE IF ~docx_installed THEN missing
    ELSE IF r.sections = 0
    THEN Raised("Missing required data: sections", raised, r.outputDir,
                <<"ensure_dir", "raise">>)
    ELSE Process(<<ok>>, 0, r.outputDir,
                 path_join(r.outputDir, role_docx_name(r)),
                 <<"ensure_dir", "save">>)

\* generate_role.py run as a program: the handler of __main__ writes the
\* error object and returns, the exit code stays 0
role_program(r, docx_installed) ==
    role_run(r, docx_installed, 0,
             Raised("Missing Python dependency for Word generation. Install: python-docx",
                    0, r.outputDir, <<"ensure_dir", "raise">>),
             RoleResultObject(role_docx_name(r),
                              path_join(r.outputDir, role_docx_name(r))))

\* run_generate_role of the backend: ModuleNotFoundError reaches the
\* handler of the backend
run_generate_role(r, docx_installed) ==
    role_run(r, docx_installed, 1,
             Process(<<DependencyObject("No module named 'docx'")>>, 1,
                     r.outputDir, "", <<"ensure_dir", "raise">>),
             SuccessObject(role_docx_name(r),
                           path_join(r.outputDir, role_docx_name(r))))

\* run_generate_document of the backend
run_generate_document(document_type, p, docx_installed) ==
    document_program(document_type, p, docx_installed)

\* handle_generate
handle_generate(req) ==
    IF normalize_script_name(req.script)
           \in {"generate_document.py", "generate_document"}
    THEN run_generate_document(req.documentType, req.payload,
                               req.docx_installed)
    ELSE IF normalize_script_name(req.script)
                \in {"generate_role.py", "generate_role"}
    THEN run_generate_role(req.role, req.docx_installed)
    ELSE Raised("Unsupported backend script: "
                \o OrText(normalize_script_name(req.script), "(empty)"),
                1, "", <<"raise">>)

\* command_of without lower(): the command is compared as it is written
command_of_as_written(req) == Strip(OrText(req.command, "generate"))

\* str(request.get("command") or "generate").strip().lower()
command_of(req) == Lower(Strip(OrText(req.command, "generate")))

\* backend/main.py run as a program.  argv is "" (no argument), "--ping",
\* or "--ping=1": argparse refuses a value for a store_true flag, prints
\* its usage on standard error and exits with 2
backend_program(req) ==
    IF req.argv = "--ping" THEN Process(<<PingObject>>, 0, "", "", <<>>)
    ELSE IF req.argv # "" THEN Process(<<>>, 2, "", "", <<"raise">>)
    ELSE IF command_of(req) = "ping"
    THEN Process(<<PingObject>>, 0, "", "", <<>>)
    ELSE IF command_of(req) # "generate"
    THEN Raised("Unsupported backend command: " \o command_of(req), 1, "",
                <<"raise">>)
    ELSE handle_generate(req)

-----------------------------------------------------------------------------
(* draw_role_docx: the two pages of one section of the role document *)

\* Layout.table_rows_page1 and Layout.table_rows_continuation
table_rows_page1 == 8
table_rows_continuation == 6

\* a worker of a section; rowNo, deduction: None when the key is absent
RoleWorker(id, rowNo, daysWorked, grossSalary, deduction, netSalary) ==
    [id |-> id, rowNo |-> rowNo, daysWorked |-> daysWorked,
     grossSalary |-> grossSalary, deduction |-> deduction,
     netSalary |-> netSalary]

\* the totals a section carries; each None when the key is absent
RoleTotals(totalDays, totalGross, totalDeduction, totalNet) ==
    [totalDays |-> totalDays, totalGross |-> totalGross,
     totalDeduction |-> totalDeduction, totalNet |-> totalNet]

\* to_float of draw_role_docx: float(value), the default when it raises
to_float(value, default) == IF value = None THEN default ELSE value[1]

\* max(1, int(payload.get("splitIndex") or layout.table_rows_page1 ...))
page1_worker_rows(splitIndex) ==
    Max(1, IF splitIndex # 0 THEN splitIndex ELSE table_rows_page1)

\* max(1, int(payload.get("continuationRows") or ...))
continuation_worker_rows(continuationRows) ==
    Max(1, IF continuationRows # 0 THEN continuationRows
           ELSE table_rows_continuation)

\* row = dict(worker); row["rowNo"] = i + 1
prepared_rows(sec_workers) ==
    [i \in 1..Len(sec_workers) |->
        [sec_workers[i] EXCEPT !.rowNo = Some(i)]]

\* prepared_rows[:n] and prepared_rows[n:], n >= 1
FirstRows(rows, n) == SubSeq(rows, 1, IF n < Len(rows) THEN n ELSE Len(rows))
RestRows(rows, n) == SubSeq(rows, n + 1, Len(rows))

\* the sums of sum_workers before they are rounded
RECURSIVE sum_rows(_)
sum_rows(rows) ==
    IF rows = <<>>
    THEN [totalDays |-> 0, totalGross |-> 0, totalDeduction |-> 0,
          totalNet |-> 0]
    ELSE LET row == Head(rows)
             rest == sum_rows(Tail(rows))
         IN  [totalDays |-> rest.totalDays + to_float(row.daysWorked, 0),
              totalGross |-> rest.totalGross + to_float(row.grossSalary, 0),
              totalDeduction |->
                  rest.totalDeduction + to_float(row.deduction, 0),
              totalNet |-> rest.totalNet + to_float(row.netSalary, 0)]

sum_workers(rows) ==
    [totalDays |-> sum_rows(rows).totalDays,
     totalGross |-> round2(sum_rows(rows).totalGross),
     totalDeduction |-> round2(sum_rows(rows).totalDeduction),
     totalNet |-> round2(sum_rows(rows).totalNet)]

\* the totals the section carries, the sums of its rows where it has none
normalize_totals(raw, fallback) ==
    [totalDays |-> to_float(raw.totalDays, fallback.totalDays),
     totalGross |-> round2(to_float(raw.totalGross, fallback.totalGross)),
     totalDeduction |->
         round2(to_float(raw.totalDeduction, fallback.totalDeduction)),
     totalNet |-> round2(to_float(raw.totalNet, fallback.totalNet))]

\* the cells of one worker row: the number, the worker and the amounts as
\* fmt_amount prints them, with two decimals
worker_cells(row) ==
    [rowNo |-> row.rowNo[1], blank |-> FALSE, id |-> row.id,
     days |-> to_float(row.daysWorked, 0),
     gross |-> round2(to_float(row.grossSalary, 0)),
     deduction |-> round2(to_float(row.deduction, 0)),
     net |-> round2(to_float(row.netSalary, 0))]

\* {"rowNo": base_start + len(rendered_rows), "_blank": True}
blank_cells(rowNo) ==
    [rowNo |-> rowNo, blank |-> TRUE, id |-> "", days |-> 0, gross |-> 0,
     deduction |-> 0, net |-> 0]

\* the cells of add_summary_row
summary_cells(totals_row) ==
    [days |-> totals_row.totalDays,
     gross |-> round2(totals_row.totalGross),
     deduction |-> round2(totals_row.totalDeduction),
     net |-> round2(totals_row.totalNet)]

\* slot_count of add_role_table
slot_count(rows, is_continuation, page1, continuation) ==
    Max(IF is_continuation THEN continuation ELSE page1, Len(rows))

\* mutant: the blank rows of the continuation page start again at 1
base_start_at_one(rows, is_continuation, page1) ==
    IF ~is_continuation /\ rows # <<>> THEN rows[1].rowNo[1] ELSE 1

\* base_start of add_role_table
base_start(rows, is_continuation, page1) ==
    IF rows # <<>> THEN rows[1].rowNo[1]
    ELSE IF is_continuation THEN page1 + 1 ELSE 1

\* rendered_rows of add_role_table with force_blank_rows
rendered_rows(rows, is_continuation, page1, continuation) ==
    [i \in 1..slot_count(rows, is_continuation, page1, continuation) |->
        IF i <= Len(rows) THEN worker_cells(rows[i])
        ELSE blank_cells(base_start(rows, is_continuation, page1) + i - 1)]

\* the table of one page: the REPORT row of a continuation page, the
\* rows and the TOTAL row
add_role_table(rows, totals, is_continuation, report_totals, page1, cont) ==
    [report |-> IF is_continuation THEN <<summary_cells(report_totals)>>
                ELSE <<>>,
     rows |-> rendered_rows(rows, is_continuation, page1, cont),
     total |-> summary_cells(totals)]

\* the declaration of the PDF role: total_net = float(section["totalNet"])
role_pdf_declaration(total_net) ==
    Upper(role_number_to_words_fr(total_net)) \o " DHS "
    \o Pad2(cents_of(total_net)) \o " CTS."

\* totals_words of the DOCX role, for total_net = round2(totalNet)
role_docx_words(total_net) ==
    Upper(role_number_to_words_fr(total_net)) \o " DHS "
    \o Pad2(cents_of(total_net)) \o " CTS."

role_docx_declaration(totalNet) == role_docx_words(round2(totalNet))

\* one iteration of the loop over sections: the first page, the
\* continuation page and the words of the declaration
draw_section(sec, page1, cont) ==
    LET prepared == prepared_rows(sec.workers)
        page1_rows == FirstRows(prepared, page1)
        page2_rows == RestRows(prepared, page1)
        page1_partial == sum_workers(page1_rows)
        section_totals == normalize_totals(sec.totals, sum_workers(prepared))
    IN  [first |-> add_role_table(page1_rows, page1_partial, FALSE,
                                  page1_partial, page1, cont),
         continuation |-> add_role_table(page2_rows, section_totals, TRUE,
                                         page1_partial, page1, cont),
         totals_words |-> role_docx_declaration(section_totals.totalNet)]

-----------------------------------------------------------------------------
(* Bounds and input sets *)

\* longest report.rows list
MaxWorkers == 2
\* documents generated from one payload
MaxRuns == 2

\* an amount given in dirhams and 1/1000 dirham
Dh(whole, milli) == whole * Scale + milli * MilliUnits

Days(s) == [i \in 1..Len(s) |-> Some(s[i])]

SeqsUpTo(S, n) == UNION {[1..k -> S] : k \in 0..n}

\* the worker records of the document runs
DocPool ==
    { \* both shapes, in agreement: 3 presence days at 50.00
      Worker("A", Some(3), None, Some(Dh(150, 0)), None, Days(<<1, 15, 20>>),
             Dh(50, 0), Birth("dmy", 1964, 2, 29), <<>>),
      \* totals only, three decimals, no birth date
      Worker("B", Some(2), None, Some(Dh(10, 4)), None, <<>>, 0, NoBirth,
             <<>>),
      \* above any age limit of the model, both shapes
      Worker("C", None, Some(2), None, Some(Dh(80, 0)), Days(<<5, 6>>),
             Dh(40, 0), Birth("dmy", 1950, 6, 15), <<>>),
      \* no day but an amount
      Worker("D", Some(0), None, Some(Dh(80, 0)), None, <<>>, 0, NoBirth,
             <<>>) }

\* year, month, quarter of the document runs
DocPeriods == {<<2024, 2, 1>>, <<2023, 3, 1>>, <<2024, 0, 1>>}

DocOptions ==
    { Options(lim, dec, dec, None) :
        lim \in {None, Some(59)}, dec \in {"", "12"} }

DocPayloads ==
    { Payload(per[1], per[2], per[3], rows, <<>>, "out", opt,
              MkDate(2026, 11, 5)) :
        per \in DocPeriods, rows \in SeqsUpTo(DocPool, MaxWorkers),
        opt \in DocOptions }

NoPayload ==
    Payload(0, 0, 0, <<>>, <<>>, "", Options(None, "", "", None),
            MkDate(1, 1, 1))

-----------------------------------------------------------------------------
(* Spec: the documents of one period generated from one payload *)

Init ==
    /\ payload \in DocPayloads
    /\ out = [t \in DocTypes |-> NotRun]
    /\ dirs = {}
    /\ files = {}
    /\ inp = <<>>
    /\ res = <<>>

RunsSoFar == Cardinality({t \in DocTypes : out[t].status # "none"})

\* one run of the generator with documentType = t
\* the effects r of a run: its JSON object, its directory, its file
Effects(t, r) ==
    /\ out' = [out EXCEPT ![t] = r.outcome]
    /\ dirs' = IF r.dir = "" THEN dirs ELSE dirs \cup {r.dir}
    /\ files' = IF r.path = "" THEN files ELSE files \cup {r.path}

\* a document type is generated once, and MaxRuns documents at most
CanRun(t) == out[t].status = "none" /\ RunsSoFar < MaxRuns

GenerateRecu ==
    /\ CanRun("recu-combined")
    /\ Effects("recu-combined", main("recu-combined", payload))
    /\ UNCHANGED <<payload, inp, res>>

GenerateDemandeAutorisation ==
    /\ CanRun("demande-autorisation")
    /\ Effects("demande-autorisation", main("demande-autorisation", payload))
    /\ UNCHANGED <<payload, inp, res>>

GenerateCertificatPaiement ==
    /\ CanRun("certificat-paiement")
    /\ Effects("certificat-paiement", main("certificat-paiement", payload))
    /\ UNCHANGED <<payload, inp, res>>

GenerateOrdrePaiement ==
    /\ CanRun("ordre-paiement")
    /\ Effects("ordre-paiement", main("ordre-paiement", payload))
    /\ UNCHANGED <<payload, inp, res>>

GenerateMandatPaiement ==
    /\ CanRun("mandat-paiement")
    /\ Effects("mandat-paiement", main("mandat-paiement", payload))
    /\ UNCHANGED <<payload, inp, res>>

GenerateBordereau ==
    /\ CanRun("bordereau")
    /\ Effects("bordereau", main("bordereau", payload))
    /\ UNCHANGED <<payload, inp, res>>

GenerateRcarSalariale ==
    /\ CanRun("rcar-salariale")
    /\ Effects("rcar-salariale", main("rcar-salariale", payload))
    /\ UNCHANGED <<payload, inp, res>>

GenerateRcarPatronale ==
    /\ CanRun("rcar-patronale")
    /\ Effects("rcar-patronale", main("rcar-patronale", payload))
    /\ UNCHANGED <<payload, inp, res>>

GenerateGeneric ==
    \E t \in GenericTypes :
        /\ CanRun(t)
        /\ Effects(t, main(t, payload))
        /\ UNCHANGED <<payload, inp, res>>

Next ==
    \/ GenerateRecu
    \/ GenerateDemandeAutorisation
    \/ GenerateCertificatPaiement
    \/ GenerateOrdrePaiement
    \/ GenerateMandatPaiement
    \/ GenerateBordereau
    \/ GenerateRcarSalariale
    \/ GenerateRcarPatronale
    \/ GenerateGeneric

Spec == Init /\ [][Next]_vars

-----------------------------------------------------------------------------
(* SpecDays: one document generated from one payload on two days *)

\* date.today() of the first and of the second run
FirstDay == MkDate(2024, 2, 1)
SecondDay == MkDate(2026, 11, 5)

DayPayloads ==
    { Payload(per[1], per[2], per[3], rows, <<>>, "out",
              Options(None, "12", "12", None), FirstDay) :
        per \in DocPeriods, rows \in SeqsUpTo(DocPool, MaxWorkers) }

InitDays ==
    /\ payload \in DayPayloads
    /\ out = [t \in DocTypes |-> NotRun]
    /\ dirs = {}
    /\ files = {}
    /\ inp = <<>>
    /\ res = <<>>

\* the run of the first day
GenerateOnFirstDay ==
    \E t \in DocTypes :
        /\ RunsSoFar = 0
        /\ Effects(t, main(t, payload))
        /\ inp' = <<t>>
        /\ UNCHANGED <<payload, res>>

\* the effects of a second run of the same document:
\* its JSON object is in res, the file is written again
SecondEffects(r) ==
    /\ res' = <<r.outcome>>
    /\ dirs' = IF r.dir = "" THEN dirs ELSE dirs \cup {r.dir}
    /\ files' = IF r.path = "" THEN files ELSE files \cup {r.path}

\* the same document of the same payload, on the second day
GenerateOnSecondDay ==
    /\ inp # <<>>
    /\ res = <<>>
    /\ SecondEffects(main(inp[1], [payload EXCEPT !.today = SecondDay]))
    /\ UNCHANGED <<payload, out, inp>>

NextDays ==
    \/ GenerateOnFirstDay
    \/ GenerateOnSecondDay

SpecDays == InitDays /\ [][NextDays]_vars

-----------------------------------------------------------------------------
(* SpecInvalid: documents requested without a year, a month or a quarter *)

\* year, month, quarter: 0 when the key is absent; the last one is valid
InvalidPeriods ==
    {<<0, 2, 1>>, <<0, 0, 0>>, <<2024, 0, 0>>, <<2024, 13, 5>>, <<2024, 2, 1>>}

InvalidPayloads ==
    { Payload(per[1], per[2], per[3], rows, <<>>, "out",
              Options(None, "12", "12", None), MkDate(2026, 11, 5)) :
        per \in InvalidPeriods, rows \in SeqsUpTo(DocPool, MaxWorkers) }

InitInvalid ==
    /\ payload \in InvalidPayloads
    /\ out = [t \in DocTypes |-> NotRun]
    /\ dirs = {}
    /\ files = {}
    /\ inp = <<>>
    /\ res = <<>>

SpecInvalid == InitInvalid /\ [][Next]_vars

-----------------------------------------------------------------------------
(* SpecAge: calculate_age_at and calculate_igr_deduction on their own *)

AgeBirths ==
    { NoBirth, BadBirth,
      Birth("dmy", 1964, 2, 29), Birth("dmy", 1964, 3, 1),
      Birth("dmy", 1964, 2, 28), Birth("dmy", 1963, 3, 31),
      Birth("dmy", 1963, 4, 1), Birth("dmy", 1963, 2, 29),
      Birth("dmy", 1964, 13, 1), Birth("iso", 1962, 12, 31),
      Birth("iso", 1964, 1, 1), Birth("iso", 1961, 2, 30),
      Birth("iso", 2024, 6, 1) }

AgeRefDates ==
    { MkDate(2024, 2, 29), MkDate(2024, 2, 28), MkDate(2023, 3, 31),
      MkDate(2024, 12, 31) }

AgeGross == { Dh(100, 100), Dh(10, 4), Dh(0, 80) }

AgeLimits == { 60, 59 }

InitAge ==
    /\ inp \in [birth : AgeBirths, ref : AgeRefDates, gross : AgeGross,
                age_limit : AgeLimits]
    /\ res = [age |-> <<>>, deduction |-> <<>>, net |-> <<>>]
    /\ payload = NoPayload
    /\ out = <<>>
    /\ dirs = {}
    /\ files = {}

\* res.age = <<calculate_age_at(...)>> once called
CallAgeAt ==
    /\ res.age = <<>>
    /\ res' = [res EXCEPT !.age = <<calculate_age_at(inp.birth, inp.ref)>>]
    /\ UNCHANGED <<payload, out, dirs, files, inp>>

CallIgrDeduction ==
    /\ res.deduction = <<>>
    /\ res' = [res EXCEPT !.deduction =
                   <<calculate_igr_deduction(inp.birth, inp.ref, inp.gross,
                                             inp.age_limit)>>]
    /\ UNCHANGED <<payload, out, dirs, files, inp>>

NextAge == CallAgeAt \/ CallIgrDeduction

SpecAge == InitAge /\ [][NextAge]_vars

-----------------------------------------------------------------------------
(* SpecAgg: the three aggregation loops on one list of worker records *)

AggPool ==
    { \* both shapes, in agreement
      Worker("A", Some(3), None, Some(Dh(150, 0)), None, Days(<<1, 15, 20>>),
             Dh(50, 0), Birth("dmy", 1964, 2, 29), <<>>),
      \* totals only, three decimals
      Worker("B", Some(2), None, Some(Dh(10, 4)), None, <<>>, 0, NoBirth,
             <<>>),
      \* above the age limits, total_days and total_amount
      Worker("C", None, Some(2), None, Some(Dh(80, 0)), Days(<<5, 6>>),
             Dh(40, 0), Birth("dmy", 1950, 6, 15), <<>>),
      \* no day but an amount
      Worker("D", Some(0), None, Some(Dh(80, 0)), None, <<>>, 0, NoBirth,
             <<>>),
      \* days but no amount; a presence list with a repeated day, an
      \* entry that is no number and the number 31.5
      Worker("E", Some(4), None, Some(0), None,
             <<Some(12), Some(12), None, Fraction(31, 5)>>, Dh(33, 330),
             Birth("dmy", 1964, 3, 1), <<>>),
      \* presence days but no daily rate; monthlyStats only
      Worker("F", None, None, None, None, Days(<<2, 3>>), 0, BadBirth,
             <<[days_worked |-> 2, amount |-> Dh(20, 0)],
               [days_worked |-> 1, amount |-> Dh(10, 6)]>>),
      \* days and an amount below zero (a correction entry)
      Worker("N", None, Some(2), None, Some(0 - Dh(50, 0)), <<>>, 0,
             NoBirth, <<>>) }

\* start_day, end_day
AggRanges == { <<1, 28>>, <<10, 31>>, <<12, 12>>, <<16, 29>> }

AggRefDates == { MkDate(2024, 2, 29), MkDate(2023, 3, 31) }

InitAgg ==
    /\ inp \in [rows : SeqsUpTo(AggPool, MaxWorkers), ref : AggRefDates,
                age_limit : AgeLimits, range : AggRanges]
    /\ res = [build |-> <<>>, range |-> <<>>, rcar |-> <<>>]
    /\ payload = NoPayload
    /\ out = <<>>
    /\ dirs = {}
    /\ files = {}

CallBuildWorkersFinancialRows ==
    /\ res.build = <<>>
    /\ res' = [res EXCEPT !.build =
                   <<build_workers_financial_rows(inp.rows, inp.ref,
                                                  inp.age_limit)>>]
    /\ UNCHANGED <<payload, out, dirs, files, inp>>

\* date(year, month, end_day) must exist, as it does for every caller
CallCalculateRangeNetTotal ==
    /\ res.range = <<>>
    /\ IsDate(inp.ref.year, inp.ref.month, inp.range[2])
    /\ res' = [res EXCEPT !.range =
                   <<calculate_range_net_total(
                         inp.rows, inp.ref.year, inp.ref.month, inp.range[1],
                         inp.range[2], inp.age_limit)>>]
    /\ UNCHANGED <<payload, out, dirs, files, inp>>

\* the row loop of the RCAR statement, at the salariale or patronale rate
CallRcarRowLoop ==
    /\ res.rcar = <<>>
    /\ \E rate \in {RATE_SALARIALE, RATE_PATRONALE} :
        res' = [res EXCEPT !.rcar =
                    <<[rate |-> rate,
                       table |-> rcar_rows_totals(inp.rows, rate)]>>]
    /\ UNCHANGED <<payload, out, dirs, files, inp>>

NextAgg ==
    \/ CallBuildWorkersFinancialRows
    \/ CallCalculateRangeNetTotal
    \/ CallRcarRowLoop

SpecAgg == InitAgg /\ [][NextAgg]_vars

-----------------------------------------------------------------------------
(* SpecWords: the amounts in words of the documents *)

\* total_general = report_previous + range_net of the bordereau
bordereau_total_general(report_previous, range_net) ==
    report_previous + range_net

\* bord_words and total_general_words of the bordereau
bordereau_words(report_previous, range_net) ==
    [bord_words |-> amount_to_words_dhs_cents(range_net),
     total_general_words |->
         amount_to_words_dhs_cents(
             bordereau_total_general(report_previous, range_net))]

\* amount_words_upper of the RCAR statement, with its carry, for the
\* whole part and the cents of an amount >= 0
amount_words_carry(whole_part, cents) ==
    IF cents = 100
    THEN Upper(to_words(whole_part + 1)) \o " DHS " \o Pad2(0) \o " CTS"
    ELSE Upper(to_words(whole_part)) \o " DHS " \o Pad2(cents) \o " CTS"

amount_words_upper(amount) ==
    amount_words_carry(whole_part_of(amount), cents_of(amount))

\* a payload with the decision reference the certificate asks for
DecidedPayload ==
    [NoPayload EXCEPT !.options = Options(None, "12", "12", None)]

\* amount_words of the monthly document t for the totals of the month
monthly_words(t, totals) ==
    IF t = "recu-combined" THEN recu_totals(totals).amount_words
    ELSE IF t = "demande-autorisation"
        THEN demande_totals(totals).amount_words
    ELSE IF t = "certificat-paiement"
        THEN certificat_totals(DecidedPayload, totals).amount_words
    ELSE IF t = "ordre-paiement" THEN ordre_totals(totals).amount_words
    ELSE mandat_totals(totals).amount_words

\* amounts before the last rounding, none on a half centime
WordAmounts ==
    { 0, Dh(0, 999), Dh(12, 0), Dh(12, 4), Dh(12, 990), Dh(12, 996),
      Dh(99, 996), Dh(150, 0), Dh(999, 999), Dh(1999, 996) }

\* options.reportPreviousBordereau
WordPrevious == { 0, Dh(2, 500), Dh(2, 996), Dh(0, 4) }

InitWords ==
    /\ inp \in [amount : WordAmounts, previous : WordPrevious]
    /\ res = [bordereau |-> <<>>, monthly |-> <<>>, rcar |-> <<>>,
              role |-> <<>>]
    /\ payload = NoPayload
    /\ out = <<>>
    /\ dirs = {}
    /\ files = {}

\* the bordereau words its range net, a positive whole number of centimes
\* (it raises before that when combined_net <= 0), and its grand total
CallBordereauWords ==
    /\ res.bordereau = <<>>
    /\ round2(inp.amount) > 0
    /\ res' = [res EXCEPT !.bordereau =
                   <<bordereau_words(inp.previous, round2(inp.amount))>>]
    /\ UNCHANGED <<payload, out, dirs, files, inp>>

\* a monthly document words the net total of the month
CallMonthlyWords ==
    /\ res.monthly = <<>>
    /\ \E t \in MonthlyTypes :
        res' = [res EXCEPT !.monthly =
                    <<[type |-> t,
                       amount_words |->
                           monthly_words(t, [ZeroTotals EXCEPT
                                                 !.net = inp.amount])]>>]
    /\ UNCHANGED <<payload, out, dirs, files, inp>>

\* the RCAR statement words total_versement, rounded after the row loop
CallRcarWords ==
    /\ res.rcar = <<>>
    /\ res' = [res EXCEPT !.rcar = <<amount_words_upper(round2(inp.amount))>>]
    /\ UNCHANGED <<payload, out, dirs, files, inp>>

\* the role words the totalNet of a section, in its PDF and DOCX forms
CallRoleDeclaration ==
    /\ res.role = <<>>
    /\ res' = [res EXCEPT !.role =
                   <<[pdf |-> role_pdf_declaration(inp.amount),
                      docx |-> role_docx_declaration(inp.amount)]>>]
    /\ UNCHANGED <<payload, out, dirs, files, inp>>

NextWords ==
    \/ CallBordereauWords
    \/ CallMonthlyWords
    \/ CallRcarWords
    \/ CallRoleDeclaration

SpecWords == InitWords /\ [][NextWords]_vars

-----------------------------------------------------------------------------
(* SpecPerm: the aggregation of one list of worker records in two orders *)

\* round2 of a sum of floats: a sum that is a whole number of centimes
\* plus half a centime is stored a little above or a little below it,
\* depending on the order of the additions, and is rounded up or down
float_round2(value, tie_up) ==
    IF value % CentUnits = CentUnits \div 2
    THEN (IF tie_up THEN value + (CentUnits \div 2)
          ELSE value - (CentUnits \div 2))
    ELSE round2(value)

\* build_workers_financial_rows for one order of the additions:
\* totals["gross"] is the only sum of amounts that are not rounded
build_in_order(report_rows, ref_date, age_limit, tie_up) ==
    [build_workers_financial_rows(report_rows, ref_date, age_limit)
         EXCEPT !.totals.gross =
             float_round2(build_loop(EmptyAcc, report_rows, ref_date,
                                     age_limit).totals.gross, tie_up)]

\* workers of the lists put in two orders
PermWorkers == 3

PermPool ==
    { \* totals only, three decimals
      Worker("B", Some(2), None, Some(Dh(10, 4)), None, <<>>, 0, NoBirth,
             <<>>),
      \* both shapes
      Worker("C", None, Some(2), None, Some(Dh(80, 0)), Days(<<5, 6>>),
             Dh(40, 0), Birth("dmy", 1950, 6, 15), <<>>),
      \* both shapes, three decimals
      Worker("G", Some(2), None, Some(Dh(20, 1)), None, Days(<<3, 4>>),
             Dh(10, 1), Birth("dmy", 1964, 3, 1), <<>>) }

\* the orders of n records
Perms(n) ==
    {p \in [1..n -> 1..n] : \A i \in 1..n : \A j \in 1..n :
                                i # j => p[i] # p[j]}

\* the list in the order p
Permute(rows, p) == [i \in 1..Len(rows) |-> rows[p[i]]]

\* the gross amounts of a list, in its order
ListedGross(rows) == [i \in 1..Len(rows) |-> row_gross(rows[i])]

\* the list with its first two records exchanged
SwapFirstTwo(s) ==
    [i \in 1..Len(s) |-> IF i = 1 THEN s[2] ELSE IF i = 2 THEN s[1] ELSE s[i]]

\* two orders in which the float additions give the same sum: the same
\* amounts in the same order, or with the first two exchanged
\* (0.0 + a + b = 0.0 + b + a)
SameFloatSum(rows, p) ==
    \/ ListedGross(Permute(rows, p)) = ListedGross(rows)
    \/ ListedGross(Permute(rows, p)) = SwapFirstTwo(ListedGross(rows))

InitPerm ==
    /\ inp \in [rows : [1..PermWorkers -> PermPool],
                perm : Perms(PermWorkers),
                ref : {MkDate(2023, 3, 31)},
                age_limit : {DEFAULT_AGE_LIMIT},
                tie_up : [{"listed", "permuted"} -> BOOLEAN]]
    /\ SameFloatSum(inp.rows, inp.perm)
           => inp.tie_up["listed"] = inp.tie_up["permuted"]
    /\ res = [listed |-> <<>>, permuted |-> <<>>, range_listed |-> <<>>,
              range_permuted |-> <<>>]
    /\ payload = NoPayload
    /\ out = <<>>
    /\ dirs = {}
    /\ files = {}

CallBuildListed ==
    /\ res.listed = <<>>
    /\ res' = [res EXCEPT !.listed =
                   <<build_in_order(inp.rows, inp.ref, inp.age_limit,
                                    inp.tie_up["listed"])>>]
    /\ UNCHANGED <<payload, out, dirs, files, inp>>

CallBuildPermuted ==
    /\ res.listed # <<>>
    /\ res.permuted = <<>>
    /\ res' = [res EXCEPT !.permuted =
                   <<build_in_order(Permute(inp.rows, inp.perm), inp.ref,
                                    inp.age_limit,
                                    inp.tie_up["permuted"])>>]
    /\ UNCHANGED <<payload, out, dirs, files, inp>>

\* total_cents is a sum of integers
CallRangeListed ==
    /\ res.range_listed = <<>>
    /\ res' = [res EXCEPT !.range_listed =
                   <<calculate_range_net_total(
                         inp.rows, inp.ref.year, inp.ref.month, 1,
                         inp.ref.day, inp.age_limit)>>]
    /\ UNCHANGED <<payload, out, dirs, files, inp>>

CallRangePermuted ==
    /\ res.range_listed # <<>>
    /\ res.range_permuted = <<>>
    /\ res' = [res EXCEPT !.range_permuted =
                   <<calculate_range_net_total(
                         Permute(inp.rows, inp.perm), inp.ref.year,
                         inp.ref.month, 1, inp.ref.day, inp.age_limit)>>]
    /\ UNCHANGED <<payload, out, dirs, files, inp>>

NextPerm ==
    \/ CallBuildListed
    \/ CallBuildPermuted
    \/ CallRangeListed
    \/ CallRangePermuted

SpecPerm == InitPerm /\ [][NextPerm]_vars

-----------------------------------------------------------------------------
(* SpecPeriod: the periods derived from a year and a month or months *)

\* longest report.period.months list
MaxMonths == 2

PeriodYears == {2023, 2024}

\* report.period.months as _generate_rcar_docx keeps it: months in 1..12
PeriodMonthLists == SeqsUpTo(1..12, MaxMonths)

InitPeriod ==
    /\ inp \in [year : PeriodYears, month : 1..12, months : PeriodMonthLists]
    /\ res = [month |-> <<>>, rcar |-> <<>>]
    /\ payload = NoPayload
    /\ out = <<>>
    /\ dirs = {}
    /\ files = {}

CallMonthStartEnd ==
    /\ res.month = <<>>
    /\ res' = [res EXCEPT !.month = month_start_end(inp.year, inp.month)]
    /\ UNCHANGED <<payload, out, dirs, files, inp>>

\* the period of the RCAR statement and of its file name; none is derived
\* from an empty list
CallRcarPeriod ==
    /\ res.rcar = <<>>
    /\ inp.months # <<>>
    /\ res' = [res EXCEPT !.rcar = rcar_period_dates(inp.year, inp.months)]
    /\ UNCHANGED <<payload, out, dirs, files, inp>>

NextPeriod ==
    \/ CallMonthStartEnd
    \/ CallRcarPeriod

SpecPeriod == InitPeriod /\ [][NextPeriod]_vars

-----------------------------------------------------------------------------
(* SpecNumbers: one whole number put in words by both implementations *)

\* every number up to MaxNumber is put in words
MaxNumber == 1100

\* the numbers above MaxNumber: around the thousands and the millions
LargeNumbers ==
    {1999, 2000, 2001, 2021, 10000, 21071, 80000, 99999, 100000, 100100,
     999999, 1000000, 1000001, 1000100, 1100000, 2000000, 2000071, 21000091}

InitNumbers ==
    /\ inp \in (0..MaxNumber) \cup LargeNumbers
    /\ res = [document |-> <<>>, role |-> <<>>]
    /\ payload = NoPayload
    /\ out = <<>>
    /\ dirs = {}
    /\ files = {}

\* generate_document.number_to_words_fr(inp)
CallDocumentNumberToWords ==
    /\ res.document = <<>>
    /\ res' = [res EXCEPT !.document = <<to_words(inp)>>]
    /\ UNCHANGED <<payload, out, dirs, files, inp>>

\* generate_role.number_to_words_fr(inp)
CallRoleNumberToWords ==
    /\ res.role = <<>>
    /\ res' = [res EXCEPT !.role = <<role_to_words(inp)>>]
    /\ UNCHANGED <<payload, out, dirs, files, inp>>

NextNumbers ==
    \/ CallDocumentNumberToWords
    \/ CallRoleNumberToWords

SpecNumbers == InitNumbers /\ [][NextNumbers]_vars

-----------------------------------------------------------------------------
(* SpecEntry: one request handled by one of the three programs *)

\* argv, command and script of the requests ("" when absent)
EntryInvocations ==
    { <<"--ping", "", "">>,
      <<"--ping", "generate", "generate_document.py">>,
      <<"--ping=1", "ping", "">>,
      <<"", "ping", "generate_role.py">>,
      <<"", " PING ", "generate_document.py">>,
      <<"", "stop", "generate_document.py">>,
      <<"", "", "generate_document.py">>,
      <<"", "generate", "src\\python\\Generate_Document.py">>,
      <<"", "Generate", "python/generate_role">>,
      <<"", "generate", "generate_pdf.py">>,
      <<"", "generate", "">> }

\* documentType of the requests
EntryTypes ==
    {"recu-combined", "certificat-paiement", "bordereau", "rcar-salariale",
     "note", ""}

\* report.rows of the requests: none, one paid worker, one excluded worker
EntryRows ==
    { <<>>, <<CHOOSE w \in DocPool : w.id = "A">>,
      <<CHOOSE w \in DocPool : w.id = "D">> }

EntryPayloads ==
    { Payload(per[1], per[2], per[3], rows, <<>>, dir,
              Options(None, dec, dec, None), MkDate(2026, 11, 5)) :
        per \in {<<2024, 2, 1>>, <<2024, 0, 0>>}, rows \in EntryRows,
        dir \in {"", "out"}, dec \in {"", "12"} }

\* the payload read as a role payload has the same outputDir
EntryRequests ==
    { [argv |-> inv[1], command |-> inv[2], script |-> inv[3],
       documentType |-> t, payload |-> p,
       role |-> RolePayload(p.outputDir, "", "01/03/2024", "", "31/03/2024",
                            sections),
       docx_installed |-> docx] :
        inv \in EntryInvocations, t \in EntryTypes, p \in EntryPayloads,
        sections \in {0, 2}, docx \in BOOLEAN }

InitEntry ==
    /\ inp \in EntryRequests
    /\ res = <<>>
    /\ payload = inp.payload
    /\ out = <<>>
    /\ dirs = {}
    /\ files = {}

\* the effects of the process r of the program named entry
Ran(entry, r) ==
    /\ res' = <<[entry |-> entry, process |-> r]>>
    /\ dirs' = IF r.dir = "" THEN dirs ELSE dirs \cup {r.dir}
    /\ files' = IF r.path = "" THEN files ELSE files \cup {r.path}

\* backend/main.py with the request on its standard input
RunBackend ==
    /\ res = <<>>
    /\ Ran("backend", backend_program(inp))
    /\ UNCHANGED <<payload, out, inp>>

\* generate_document.py with the payload on its standard input
RunDocumentProgram ==
    /\ res = <<>>
    /\ Ran("generate_document",
           document_program(inp.documentType, inp.payload,
                            inp.docx_installed))
    /\ UNCHANGED <<payload, out, inp>>

\* generate_role.py with the payload on its standard input
RunRoleProgram ==
    /\ res = <<>>
    /\ Ran("generate_role", role_program(inp.role, inp.docx_installed))
    /\ UNCHANGED <<payload, out, inp>>

NextEntry ==
    \/ RunBackend
    \/ RunDocumentProgram
    \/ RunRoleProgram

SpecEntry == InitEntry /\ [][NextEntry]_vars

-----------------------------------------------------------------------------
(* SpecNames: the file names of the documents *)

\* year, month, quarter, options.bordereauNumber, periodStart and
\* periodEnd as texts; "" when absent
NameTexts == {"", "2024", "2", " 2024 ", "../x", "1/../..\\x", "T 1"}

NameTypes ==
    {"recu-combined", "bordereau", "rcar-salariale", "reference-values",
     "../evil type"}

InitNames ==
    /\ inp \in [type : NameTypes, year : NameTexts, month : NameTexts,
                quarter : NameTexts, number : {"", "7", "a/b"}]
    /\ res = [document |-> <<>>, role |-> <<>>]
    /\ payload = NoPayload
    /\ out = <<>>
    /\ dirs = {}
    /\ files = {}

CallBuildDocxFilename ==
    /\ res.document = <<>>
    /\ res' = [res EXCEPT !.document =
                   <<build_docx_filename_of_texts(inp.type, inp.year,
                                                  inp.month, inp.quarter,
                                                  inp.number)>>]
    /\ UNCHANGED <<payload, out, dirs, files, inp>>

\* the name of the role document, with year and month of the request as
\* periodStart and periodEnd
CallRoleDocxName ==
    /\ res.role = <<>>
    /\ res' = [res EXCEPT !.role =
                   <<role_docx_name(RolePayload("out", "", inp.year, "",
                                                inp.month, 1))>>]
    /\ UNCHANGED <<payload, out, dirs, files, inp>>

NextNames ==
    \/ CallBuildDocxFilename
    \/ CallRoleDocxName

SpecNames == InitNames /\ [][NextNames]_vars

-----------------------------------------------------------------------------
(* SpecRole: the sections of one role document drawn one after the other *)

MaxRoleWorkers == 3

RolePool ==
    { \* amounts with three decimals, no deduction key
      RoleWorker("P", None, Some(2), Some(Dh(10, 4)), None,
                 Some(Dh(10, 4))),
      \* amounts in centimes, a rowNo of its own
      RoleWorker("Q", Some(9), Some(3), Some(Dh(100, 0)), Some(Dh(6, 0)),
                 Some(Dh(94, 0))) }

NoRoleTotals == RoleTotals(None, None, None, None)

\* the totals a section carries, or none
RoleSectionTotals ==
    { NoRoleTotals,
      RoleTotals(Some(5), Some(Dh(110, 0)), Some(Dh(6, 0)),
                 Some(Dh(104, 0))) }

RoleSections ==
    [workers : SeqsUpTo(RolePool, MaxRoleWorkers), totals : RoleSectionTotals]

\* splitIndex and continuationRows of the payload, 0 when absent
SplitIndexes == {0, 0 - 1, 1, 2}
ContinuationRows == {0, 1}

InitRole ==
    /\ inp \in [sections : UNION {[1..n -> RoleSections] : n \in 0..2},
                splitIndex : SplitIndexes,
                continuationRows : ContinuationRows]
    /\ res = [drawn |-> <<>>, raised |-> FALSE]
    /\ payload = NoPayload
    /\ out = <<>>
    /\ dirs = {}
    /\ files = {}

\* if not sections: raise ValueError("Missing required data: sections")
RaiseMissingSections ==
    /\ inp.sections = <<>>
    /\ ~res.raised
    /\ res' = [res EXCEPT !.raised = TRUE]
    /\ UNCHANGED <<payload, out, dirs, files, inp>>

\* one iteration of "for idx, sec in enumerate(sections)"
DrawSection ==
    /\ Len(res.drawn) < Len(inp.sections)
    /\ res' = [res EXCEPT !.drawn =
                   Append(res.drawn,
                          draw_section(
                              inp.sections[Len(res.drawn) + 1],
                              page1_worker_rows(inp.splitIndex),
                              continuation_worker_rows(
                                  inp.continuationRows)))]
    /\ UNCHANGED <<payload, out, dirs, files, inp>>

NextRole ==
    \/ RaiseMissingSections
    \/ DrawSection

SpecRole == InitRole /\ [][NextRole]_vars

-----------------------------------------------------------------------------
(* SpecRcar: the period of one RCAR statement, in its file name and in     *)
(* the document                                                            *)

\* the payload of an RCAR request of year, quarter and months
RcarPayload(year, quarter, months) ==
    Payload(year, 0, quarter, <<>>, months, "out",
            Options(None, "", "", None), MkDate(2026, 11, 5))

InitRcar ==
    /\ inp \in [type : RcarTypes, year : PeriodYears, quarter : 1..4,
                months : PeriodMonthLists]
    /\ res = [name |-> <<>>, period |-> <<>>]
    /\ payload = RcarPayload(inp.year, inp.quarter, inp.months)
    /\ out = <<>>
    /\ dirs = {}
    /\ files = {}

\* build_docx_filename(document_type, payload) of main
CallRcarFilename ==
    /\ res.name = <<>>
    /\ res' = [res EXCEPT !.name =
                   <<build_docx_filename(inp.type, payload)>>]
    /\ UNCHANGED <<payload, out, dirs, files, inp>>

\* period_from_s and period_to_s of _generate_rcar_docx
CallRcarPrintedPeriod ==
    /\ res.period = <<>>
    /\ res' = [res EXCEPT !.period = <<rcar_period(payload)>>]
    /\ UNCHANGED <<payload, out, dirs, files, inp>>

NextRcar ==
    \/ CallRcarFilename
    \/ CallRcarPrintedPeriod

SpecRcar == InitRcar /\ [][NextRcar]_vars

-----------------------------------------------------------------------------
(* Vocabulary of the properties *)

\* a date as one number, ordered as the calendar is
DateKey(y, m, d) == y * 10000 + m * 100 + d

\* the birth date is present and is a calendar date
BirthKnown(birth) ==
    birth.k \in {"dmy", "iso"} /\ IsDate(birth.y, birth.m, birth.d)

\* the n-th anniversary of the birth date is on or before ref
AnniversaryReached(birth, n, ref) ==
    DateKey(birth.y + n, birth.m, birth.d)
        <= DateKey(ref.year, ref.month, ref.day)

\* the worker is strictly older than age_limit at ref
AgeAbove(birth, ref, age_limit) ==
    BirthKnown(birth) /\ AnniversaryReached(birth, age_limit + 1, ref)

\* amount is a whole number of centimes within half a centime of num/den
NearestCentime(amount, num, den) ==
    /\ amount % CentUnits = 0
    /\ 2 * (den * amount - num) <= den * CentUnits
    /\ 2 * (num - den * amount) <= den * CentUnits

\* the entries of a presence list that int() converts to a day number
\* within start..end, each position counted
PresenceCount(presence_days, start_day, end_day) ==
    Cardinality({i \in 1..Len(presence_days) :
                    /\ presence_days[i] # None
                    /\ presence_days[i][1] \in start_day..end_day})

\* the entries of a presence list that are integers within start..end,
\* each position counted
IntegerPresenceCount(presence_days, start_day, end_day) ==
    Cardinality({i \in 1..Len(presence_days) :
                    /\ Len(presence_days[i]) = 1
                    /\ presence_days[i][1] \in start_day..end_day})

\* what count days are worth at the daily rate of w
PayOfDays(w, count) ==
    IF w.salaire_journalier > 0 THEN round2(count * w.salaire_journalier)
    ELSE 0

\* what the presence days within start..end are worth at the daily rate
PresencePay(w, start_day, end_day) ==
    PayOfDays(w, PresenceCount(w.presenceDays, start_day, end_day))

\* pay less 6% to the centime, in full above the age limit
NetOfPay(w, pay, ref, age_limit) ==
    IF AgeAbove(w.date_naissance, ref, age_limit) THEN pay
    ELSE pay - round2(TimesRate(pay, RCAR_RATE))

\* the sum over the workers of the pay of their presence days
RECURSIVE PresencePayTotal(_, _, _)
PresencePayTotal(rows, start_day, end_day) ==
    IF rows = <<>> THEN 0
    ELSE PresencePay(Head(rows), start_day, end_day)
         + PresencePayTotal(Tail(rows), start_day, end_day)

\* the sum over the workers of the net pay of their presence days
RECURSIVE PresenceNetTotal(_, _, _, _, _)
PresenceNetTotal(rows, start_day, end_day, ref, age_limit) ==
    IF rows = <<>> THEN 0
    ELSE NetOfPay(Head(rows),
                  PresencePay(Head(rows), start_day, end_day),
                  ref, age_limit)
         + PresenceNetTotal(Tail(rows), start_day, end_day, ref, age_limit)

\* the sum over the workers of the net pay of their integer presence days
RECURSIVE IntegerPresenceNetTotal(_, _, _, _, _)
IntegerPresenceNetTotal(rows, start_day, end_day, ref, age_limit) ==
    IF rows = <<>> THEN 0
    ELSE NetOfPay(Head(rows),
                  PayOfDays(Head(rows),
                            IntegerPresenceCount(Head(rows).presenceDays,
                                                 start_day, end_day)),
                  ref, age_limit)
         + IntegerPresenceNetTotal(Tail(rows), start_day, end_day, ref,
                                   age_limit)

\* every worker of the list is strictly older than age_limit at ref
AllAbove(rows, ref, age_limit) ==
    /\ rows # <<>>
    /\ \A i \in 1..Len(rows) : AgeAbove(rows[i].date_naissance, ref, age_limit)

\* the last day of the period of an RCAR statement
RcarPeriodEnd(p) ==
    month_end(p.year, rcar_period_months(p)[Len(rcar_period_months(p))])

\* one decimal digit
IsDigit(c) == c \in {"0", "1", "2", "3", "4", "5", "6", "7", "8", "9"}

\* text ends with the currency word, two digits and the cents word
EndsWithTwoDigitCents(text, dhs, cts) ==
    /\ Len(text) >= Len(dhs) + 2 + Len(cts)
    /\ SubSeq(text, Len(text) - Len(cts) + 1, Len(text)) = cts
    /\ IsDigit(SubSeq(text, Len(text) - Len(cts), Len(text) - Len(cts)))
    /\ IsDigit(SubSeq(text, Len(text) - Len(cts) - 1,
                      Len(text) - Len(cts) - 1))
    /\ SubSeq(text, Len(text) - Len(cts) - 1 - Len(dhs),
              Len(text) - Len(cts) - 2) = dhs

\* the number of centimes nearest to an amount that is on no half centime
CentimesOf(amount) == (amount + (CentUnits \div 2)) \div CentUnits

\* text words the amount rounded to the centime
WordsWithCarry(text, amount, dhs, cts) ==
    /\ EndsWithTwoDigitCents(text, dhs, cts)
    /\ text = to_words(CentimesOf(amount) \div 100) \o dhs
              \o Pad2(CentimesOf(amount) % 100) \o cts

\* the same in capital letters
UpperWordsWithCarry(text, amount, dhs, cts) ==
    /\ EndsWithTwoDigitCents(text, dhs, cts)
    /\ text = Upper(to_words(CentimesOf(amount) \div 100)) \o dhs
              \o Pad2(CentimesOf(amount) % 100) \o cts

\* the French words of 1..19, word by word capitalised
FrenchBelowTwenty ==
    <<"Un", "Deux", "Trois", "Quatre", "Cinq", "Six", "Sept", "Huit", "Neuf",
      "Dix", "Onze", "Douze", "Treize", "Quatorze", "Quinze", "Seize",
      "Dix Sept", "Dix Huit", "Dix Neuf">>

\* text has the part somewhere
Contains(text, part) ==
    \E i \in 1..Len(text) :
        i + Len(part) - 1 <= Len(text)
            /\ SubSeq(text, i, i + Len(part) - 1) = part

\* the words of n follow the composition of 70..99 and the words of
\* zero, one million and two millions; the connector of 71 is left open
ComposedAboveSeventy(words, n) ==
    /\ n = 0 => words = "Zero"
    /\ n = 71 => words \in {"Soixante Onze", "Soixante Et Onze"}
    /\ (n \in 70..79 /\ n # 71) =>
           words = "Soixante " \o FrenchBelowTwenty[n - 60]
    /\ n = 80 => words = "Quatre Vingt"
    /\ n \in 81..99 => words = "Quatre Vingt " \o FrenchBelowTwenty[n - 80]
    /\ n = 1000000 => words = "Un Million"
    /\ n = 2000000 => words = "Deux Millions"

\* the words of 21, 31, 41, 51, 61 and 71 have the connector
HasConnector(words, n) ==
    n \in {21, 31, 41, 51, 61, 71} => Contains(words, " Et ")

\* a request for a document of type t without a positive year, or without
\* the month (monthly documents, bordereau) or the quarter (RCAR
\* statements) within bounds
RequestInvalid(t, p) ==
    \/ p.year <= 0
    \/ t \in MonthlyTypes \cup {"bordereau"} /\ p.month \notin 1..12
    \/ t \in RcarTypes /\ p.quarter \notin 1..4

\* text begins with part
StartsWith(text, part) ==
    Len(part) <= Len(text) /\ SubSeq(text, 1, Len(part)) = part

\* the process wrote one object, an error about a required field that is
\* missing or not valid: outputDir, documentType, year and month, or the
\* decision reference of the certificate
EndsInValidationError(process) ==
    /\ Len(process.stdout) = 1
    /\ "message" \in DOMAIN process.stdout[1]
    /\ \/ StartsWith(process.stdout[1].message, "Missing required field")
       \/ StartsWith(process.stdout[1].message,
                     "Missing CERTIFICAT DE PAIEMENT decision reference")

\* the steps of the process have none of the steps named
NeverDid(process, named) ==
    \A i \in 1..Len(process.steps) : process.steps[i] \notin named

\* the document types the generator knows
KnownDocumentTypes ==
    {"demande-autorisation", "certificat-paiement",
     "certificat-paiement-combined", "ordre-paiement", "mandat-paiement",
     "depense-regie-recapitulatif", "reference-values", "bordereau",
     "recu-combined", "rcar-salariale", "rcar-patronale"}

\* the program that ran was asked to generate a document of
\* generate_document: generate_document.py itself, or the backend with the
\* command generate and that script
AskedForDocument ==
    /\ res # <<>>
    /\ \/ res[1].entry = "generate_document"
       \/ /\ res[1].entry = "backend"
          /\ inp.argv = ""
          /\ command_of(inp) = "generate"
          /\ normalize_script_name(inp.script)
                 \in {"generate_document.py", "generate_document"}

\* the process wrote one object with success = false and no document
Rejected(process) ==
    /\ Len(process.stdout) = 1
    /\ "success" \in DOMAIN process.stdout[1]
    /\ process.stdout[1].success = FALSE
    /\ process.path = ""

\* the request is a ping: the flag --ping, or no argument and the command
\* ping in any letter case
IsPing(req) ==
    \/ req.argv = "--ping"
    \/ req.argv = "" /\ Upper(Strip(req.command)) = "PING"

\* every character of the text is one of [0-9A-Za-z._-]
OnlySafeCharacters(text) ==
    \A i \in 1..Len(text) :
        \E k \in 1..Len(SafeChars) :
            SubSeq(text, i, i) = SubSeq(SafeChars, k, k)

\* the records of the list that the loop of build_workers_financial_rows
\* does not skip, in the order of the list
IncludedWorkers(report_rows) ==
    SelectSeq(report_rows, LAMBDA w : ~row_skipped(w))

\* the workers of a list of records or of rows, by position
WorkerIds(s) == [i \in 1..Len(s) |-> s[i].id]

\* the rows of both pages of a drawn section, in the order of the pages
RowsOfBothPages(d) == d.first.rows \o d.continuation.rows

\* the rows of a table that show a worker
WorkerRows(rows) == SelectSeq(rows, LAMBDA r : ~r.blank)

\* on a page no worker row comes after a blank row
BlanksComeLast(rows) ==
    \A i, j \in 1..Len(rows) : (rows[i].blank /\ i < j) => rows[j].blank

\* a summary row is another summary row plus the worker rows listed
IsCarriedPlusRows(total, carried, rows) ==
    /\ total.days = carried.days + SumField(WorkerRows(rows), "days")
    /\ total.gross = carried.gross + SumField(WorkerRows(rows), "gross")
    /\ total.deduction
           = carried.deduction + SumField(WorkerRows(rows), "deduction")
    /\ total.net = carried.net + SumField(WorkerRows(rows), "net")

\* the text ends with the given ending
EndsWith(text, ending) ==
    /\ Len(ending) <= Len(text)
    /\ SubSeq(text, Len(text) - Len(ending) + 1, Len(text)) = ending

\* the ending of a file name that carries the printed period dd/mm/yyyy
\* to dd/mm/yyyy as dd-mm-yyyy_dd-mm-yyyy
PeriodEnding(period) ==
    "_" \o ReplaceSeparators(period[1], "-") \o "_"
    \o ReplaceSeparators(period[2], "-") \o ".docx"

-----------------------------------------------------------------------------
(* Properties of build_workers_financial_rows *)

\* C1: the totals returned by build_workers_financial_rows satisfy
\* net = gross - deduction exactly, and so does every returned row.
C1_NetIsGrossMinusDeduction ==
    res.build # <<>> =>
        /\ res.build[1].totals.net
               = res.build[1].totals.gross - res.build[1].totals.deduction
        /\ \A i \in 1..Len(res.build[1].rows) :
               res.build[1].rows[i].net
                   = res.build[1].rows[i].gross
                     - res.build[1].rows[i].deduction

\* C2: the sum of row.net over the returned rows equals totals.net of the
\* same call.
C2_SumOfRowNetIsTotalNet ==
    res.build # <<>> =>
        SumField(res.build[1].rows, "net") = res.build[1].totals.net

\* C2 witness: a call that returned two rows, one of them for a gross
\* amount with three decimals.
C2_Witness ==
    /\ res.build # <<>>
    /\ Len(res.build[1].rows) = 2
    /\ \E i \in 1..Len(inp.rows) :
           /\ ~row_skipped(inp.rows[i])
           /\ row_gross(inp.rows[i]) % CentUnits # 0
    /\ res.build[1].totals.net > 0

\* C14: each total of build_workers_financial_rows is the sum of the rounded
\* values of the returned rows: totals.gross is the sum of row.gross and
\* totals.deduction is the sum of row.deduction.
C14_TotalsAreSumsOfRows ==
    res.build # <<>> =>
        /\ res.build[1].totals.gross = SumField(res.build[1].rows, "gross")
        /\ res.build[1].totals.deduction
               = SumField(res.build[1].rows, "deduction")

-----------------------------------------------------------------------------
(* Properties of the documents of one period *)

\* C3: for the same report rows, year, month and options, any two of the
\* five monthly documents (recu-combined, demande-autorisation,
\* certificat-paiement, ordre-paiement, mandat-paiement) that are produced
\* show the same net total, the same digit string and the same words string.
C3_MonthlyDocumentsAgree ==
    \A t1 \in MonthlyTypes : \A t2 \in MonthlyTypes :
        (out[t1].status = "ok" /\ out[t2].status = "ok") =>
            /\ out[t1].total_net = out[t2].total_net
            /\ out[t1].amount_digits = out[t2].amount_digits
            /\ out[t1].amount_words = out[t2].amount_words

\* C3 witness: the certificate and the mandate of February 2024 are both
\* produced with rcarAgeLimit 59 for a worker who turns 60 on the last
\* day of the month, and show a positive net total.
C3_Witness ==
    /\ out["certificat-paiement"].status = "ok"
    /\ out["mandat-paiement"].status = "ok"
    /\ out["mandat-paiement"].total_net > 0
    /\ payload.options.rcarAgeLimit = Some(59)
    /\ payload.year = 2024 /\ payload.month = 2
    /\ \E i \in 1..Len(payload.rows) :
           payload.rows[i].date_naissance = Birth("dmy", 1964, 2, 29)

\* C4: the bordereau's combined net for days 1 to the month's last day
\* equals the net total the certificate and the mandate show for the same
\* rows, year, month and options.
C4_BordereauAgreesWithMonthly ==
    \A t \in {"certificat-paiement", "mandat-paiement"} :
        (out["bordereau"].status = "ok" /\ out[t].status = "ok") =>
            out["bordereau"].total_net = out[t].total_net

-----------------------------------------------------------------------------
(* Properties of calculate_age_at and calculate_igr_deduction *)

\* C5: calculate_igr_deduction returns 6% of the gross rounded to the
\* nearest centime when the birth date is absent or unparseable or the
\* worker has not reached the anniversary that makes the age exceed the
\* limit at the reference date, and 0 when the age is above the limit.
C5_DeductionByAge ==
    res.deduction # <<>> =>
        IF AgeAbove(inp.birth, inp.ref, inp.age_limit)
        THEN res.deduction[1] = 0
        ELSE NearestCentime(res.deduction[1], RCAR_RATE * inp.gross, 100)

\* C5 witness: a worker who turns 60 on the reference date, with limit 60,
\* is deducted 6.01 on 100.10.
C5_Witness ==
    /\ res.deduction = <<Dh(6, 10)>>
    /\ inp.birth = Birth("dmy", 1964, 2, 29)
    /\ inp.ref = MkDate(2024, 2, 29)
    /\ inp.age_limit = 60
    /\ inp.gross = Dh(100, 100)

\* C6: calculate_age_at returns null exactly when the birth date is absent
\* or no calendar date, and otherwise the number a of whole years such
\* that the a-th anniversary is on or before the reference date and the
\* (a+1)-th is after it.
C6_AgeIsCalendarAccurate ==
    res.age # <<>> =>
        IF BirthKnown(inp.birth)
        THEN /\ res.age[1] # None
             /\ AnniversaryReached(inp.birth, res.age[1][1], inp.ref)
             /\ ~AnniversaryReached(inp.birth, res.age[1][1] + 1, inp.ref)
        ELSE res.age[1] = None

\* C6 witness: the anniversary falls on the reference date and the full
\* year is counted.
C6_Witness ==
    /\ res.age = <<Some(60)>>
    /\ inp.birth.m = inp.ref.month
    /\ inp.birth.d = inp.ref.day
    /\ inp.birth.y + 60 = inp.ref.year

-----------------------------------------------------------------------------
(* Properties of the deductions and of the excluded workers *)

\* C7: in every document that reports a deduction, a worker strictly above
\* the age limit at the period end gets a deduction of zero: a monthly
\* document whose workers are all above the limit shows a total deduction
\* of 0, the bordereau of such workers pays their presence days in full,
\* and an RCAR statement shows 0 on the row of every such worker.
C7_NoDeductionAboveLimit ==
    /\ \A t \in MonthlyTypes :
           ( /\ out[t].status = "ok"
             /\ AllAbove(payload.rows, month_end(payload.year, payload.month),
                         age_limit_of(payload.options)) )
           => out[t].totals.deduction = 0
    /\ ( /\ out["bordereau"].status = "ok"
         /\ AllAbove(payload.rows, month_end(payload.year, payload.month),
                     age_limit_of(payload.options)) )
       => out["bordereau"].total_net
              = PresencePayTotal(payload.rows, 1,
                                 monthrange(payload.year, payload.month))
    /\ \A t \in RcarTypes :
           out[t].status = "ok" =>
               \A i \in 1..Len(out[t].rows) :
                   \A j \in 1..Len(payload.rows) :
                       ( /\ payload.rows[j].id = out[t].rows[i].id
                         /\ AgeAbove(payload.rows[j].date_naissance,
                                     RcarPeriodEnd(payload),
                                     age_limit_of(payload.options)) )
                       => out[t].rows[i].deduction = 0

\* C8: each aggregation path leaves out every worker whose effective days
\* are non-positive or whose gross is non-positive: the rows returned by
\* build_workers_financial_rows and the rows of the RCAR loop are those of
\* the workers with positive days and positive gross, and a range in which
\* no worker has both a presence day and a daily rate totals 0.
C8_ExcludedWorkersAreLeftOut ==
    /\ res.build # <<>> =>
           Len(res.build[1].rows)
               = Cardinality({i \in 1..Len(inp.rows) :
                                 row_days(inp.rows[i]) > 0
                                 /\ row_gross(inp.rows[i]) > 0})
    /\ res.range # <<>> =>
           ( (\A i \in 1..Len(inp.rows) :
                  \/ PresenceCount(inp.rows[i].presenceDays, inp.range[1],
                                   inp.range[2]) <= 0
                  \/ inp.rows[i].salaire_journalier <= 0)
             => res.range[1] = 0 )
    /\ res.rcar # <<>> =>
           Len(res.rcar[1].table.rows)
               = Cardinality({i \in 1..Len(inp.rows) :
                                 rcar_days(inp.rows[i]) > 0
                                 /\ rcar_brut(inp.rows[i]) > 0})

\* C9 as claimed: calculate_range_net_total pays each worker for exactly
\* the entries of the presence list that are integers d with
\* start_day <= d <= end_day, every listed entry counted and every entry
\* that is no integer ignored.
C9_RangeCountsIntegerDays ==
    res.range # <<>> =>
        res.range[1]
            = IntegerPresenceNetTotal(inp.rows, inp.range[1], inp.range[2],
                                      MkDate(inp.ref.year, inp.ref.month,
                                             inp.range[2]),
                                      inp.age_limit)

\* C9 as amended: calculate_range_net_total pays each worker for exactly
\* the entries of the presence list that int() converts to a day number d
\* with start_day <= d <= end_day, both bounds included and every listed
\* entry counted: null and text are ignored, a number with a fraction
\* counts as its whole part.
C9_RangeCountsInclusiveDays ==
    res.range # <<>> =>
        res.range[1] = PresenceNetTotal(inp.rows, inp.range[1], inp.range[2],
                                        MkDate(inp.ref.year, inp.ref.month,
                                               inp.range[2]),
                                        inp.age_limit)

\* C9 witness: the worker with presence days 1, 15, 20 at 50.00 a day and
\* the range 10..31 is paid two days less 6%: 94.00.
C9_Witness ==
    /\ res.range = <<Dh(94, 0)>>
    /\ Len(inp.rows) = 1
    /\ inp.rows[1].presenceDays = Days(<<1, 15, 20>>)
    /\ inp.range = <<10, 31>>
    /\ inp.ref = MkDate(2023, 3, 31)

\* C10: when every worker of the payload is excluded, a bordereau request
\* with a valid year and month fails with the data error and writes no
\* document, and every other document type requested with valid fields
\* succeeds and reports totals of zero.
C10_AllExcludedPayload ==
    ( /\ payload.rows # <<>>
      /\ ~bad_year_month(payload)
      /\ payload.options.decisionNumber # ""
      /\ \A i \in 1..Len(payload.rows) :
             /\ row_days(payload.rows[i]) <= 0
                \/ row_gross(payload.rows[i]) <= 0
             /\ PresencePay(payload.rows[i], 1,
                            monthrange(payload.year, payload.month)) <= 0 )
    => /\ out["bordereau"].status # "none" =>
              /\ out["bordereau"].status = "error"
              /\ out["bordereau"].message
                     = "Aucune donnee de paie pour cette periode"
              /\ \A f \in files :
                     f # path_join(payload.outputDir,
                                   build_docx_filename("bordereau",
                                                       payload).name)
       /\ \A t \in DocTypes \ {"bordereau"} :
              out[t].status # "none" =>
                  /\ out[t].status = "ok"
                  /\ out[t].total_net = 0
                  /\ out[t].totals = ZeroTotals
                  /\ out[t].rows = <<>>

-----------------------------------------------------------------------------
(* Properties of the amounts in words *)

\* C11: every amount in words with cents has a two-digit cents field in
\* 00..99: the text is the words of the whole part, the currency word, the
\* two digits and the cents word, the whole part and the cents being those
\* of the amount rounded to the centime, so that cents that round to 100
\* are carried into the whole part.
C11_CentsFieldIsTwoDigits ==
    /\ res.bordereau # <<>> =>
           /\ WordsWithCarry(res.bordereau[1].bord_words, round2(inp.amount),
                             " dhs ", " Cts")
           /\ WordsWithCarry(res.bordereau[1].total_general_words,
                             inp.previous + round2(inp.amount),
                             " dhs ", " Cts")
    /\ res.monthly # <<>> =>
           WordsWithCarry(res.monthly[1].amount_words, inp.amount,
                          " dhs ", " Cts")
    /\ res.rcar # <<>> =>
           UpperWordsWithCarry(res.rcar[1], inp.amount, " DHS ", " CTS")
    /\ res.role # <<>> =>
           /\ EndsWithTwoDigitCents(res.role[1].pdf, " DHS ", " CTS.")
           /\ EndsWithTwoDigitCents(res.role[1].docx, " DHS ", " CTS.")

-----------------------------------------------------------------------------
(* Properties of the order of the records *)

\* C12: the totals of build_workers_financial_rows and the result of
\* calculate_range_net_total are the same for the list of records and for
\* the same records in another order.
C12_TotalsIgnoreOrder ==
    /\ (res.listed # <<>> /\ res.permuted # <<>>) =>
           res.permuted[1].totals = res.listed[1].totals
    /\ (res.range_listed # <<>> /\ res.range_permuted # <<>>) =>
           res.range_permuted = res.range_listed

-----------------------------------------------------------------------------
(* Properties of the day of the run *)

\* C13: the totals of a document depend on the payload and on its period
\* only: the same document generated from the same payload on another day
\* has the same rows, the same totals and the same amount.
C13_TotalsIgnoreRunDay ==
    res # <<>> =>
        /\ res[1].status = out[inp[1]].status
        /\ res[1].totals = out[inp[1]].totals
        /\ res[1].rows = out[inp[1]].rows
        /\ res[1].total_net = out[inp[1]].total_net

-----------------------------------------------------------------------------
(* Properties of the sign of the totals *)

\* C15: the totals of days, gross, deduction and net of
\* build_workers_financial_rows, the result of calculate_range_net_total
\* and the totals of the RCAR statement (days, brut, prelevement,
\* versement) are all >= 0, for every list of worker records.
C15_TotalsAreNonNegative ==
    /\ res.build # <<>> =>
           /\ res.build[1].totals.days >= 0
           /\ res.build[1].totals.gross >= 0
           /\ res.build[1].totals.deduction >= 0
           /\ res.build[1].totals.net >= 0
    /\ res.range # <<>> => res.range[1] >= 0
    /\ res.rcar # <<>> =>
           /\ res.rcar[1].table.totals.days >= 0
           /\ res.rcar[1].table.totals.gross >= 0
           /\ res.rcar[1].table.totals.deduction >= 0
           /\ res.rcar[1].table.totals.net >= 0

-----------------------------------------------------------------------------
(* Properties of the periods *)

\* C16: every derived period has start <= end; the period of a year and a
\* month ends on the last calendar day of that month; the RCAR period of a
\* list of months in 1..12 goes from day 1 of the first listed month to the
\* last day of the last listed month.
C16_PeriodsAreOrdered ==
    /\ res.month # <<>> =>
           /\ DateKey(res.month[1].year, res.month[1].month, res.month[1].day)
                  <= DateKey(res.month[2].year, res.month[2].month,
                             res.month[2].day)
           /\ res.month[2].year = inp.year
           /\ res.month[2].month = inp.month
           /\ IsDate(inp.year, inp.month, res.month[2].day)
           /\ ~IsDate(inp.year, inp.month, res.month[2].day + 1)
    /\ res.rcar # <<>> =>
           /\ DateKey(res.rcar[1].year, res.rcar[1].month, res.rcar[1].day)
                  <= DateKey(res.rcar[2].year, res.rcar[2].month,
                             res.rcar[2].day)
           /\ res.rcar[1] = MkDate(inp.year, inp.months[1], 1)
           /\ res.rcar[2].month = inp.months[Len(inp.months)]
           /\ ~IsDate(inp.year, res.rcar[2].month, res.rcar[2].day + 1)

-----------------------------------------------------------------------------
(* Properties of the numbers in words *)

\* C17: both number_to_words_fr word 70..79 as "Soixante" and the word of
\* n - 60, 80 as "Quatre Vingt", 81..99 as "Quatre Vingt" and the word of
\* n - 80 (91 is "Quatre Vingt Onze"), 0 as "Zero", 1,000,000 with
\* "Million" and 2,000,000 with "Millions".
C17_SeventiesToNineties ==
    /\ res.document # <<>> => ComposedAboveSeventy(res.document[1], inp)
    /\ res.role # <<>> => ComposedAboveSeventy(res.role[1], inp)

\* C18: both number_to_words_fr put the connector "Et" in the words of
\* 21, 31, 41, 51, 61 and 71.
C18_ConnectorIsPresent ==
    /\ res.document # <<>> => HasConnector(res.document[1], inp)
    /\ res.role # <<>> => HasConnector(res.role[1], inp)

\* C19: the two number_to_words_fr return the same string for the same
\* number, "Cent" alone for 100 and "Mille" alone for 1000.
C19_ImplementationsAgree ==
    (res.document # <<>> /\ res.role # <<>>) =>
        /\ res.document[1] = res.role[1]
        /\ inp = 100 => res.document[1] = "Cent"
        /\ inp = 1000 => res.document[1] = "Mille"

-----------------------------------------------------------------------------
(* Properties of the requests that are not valid *)

\* C20: a request without a positive year, or without a month within 1..12
\* (monthly documents, bordereau) or a quarter within 1..4 (RCAR
\* statements), ends with an error, shows no worker row and no total, and
\* no document is written; this holds for every document type.
C20_InvalidRequestIsRejected ==
    /\ \A t \in DocTypes :
           (out[t].status # "none" /\ RequestInvalid(t, payload)) =>
               /\ out[t].status = "error"
               /\ out[t].rows = <<>>
               /\ out[t].totals = ZeroTotals
               /\ out[t].docxFileName = ""
    /\ (\A t \in DocTypes :
            out[t].status # "none" => RequestInvalid(t, payload))
           => files = {}

-----------------------------------------------------------------------------
(* Properties of the entry points *)

\* C21: a run that ends in a validation error (outputDir or documentType
\* missing, year or month not valid, decision reference of the certificate
\* missing) has executed neither build_workers_financial_rows nor
\* ensure_dir nor doc.save, and has left no directory and no file.
C21_ValidationBeforeAnyEffect ==
    (res # <<>> /\ EndsInValidationError(res[1].process)) =>
        /\ NeverDid(res[1].process,
                    {"build_workers_financial_rows", "ensure_dir", "save"})
        /\ dirs = {}
        /\ files = {}


\* C22: a request to generate a document whose documentType is not one of
\* the known document types is rejected with an error object, and no
\* document file is written.
C22_UnknownTypeIsRejected ==
    (AskedForDocument /\ inp.documentType \notin KnownDocumentTypes) =>
        /\ Rejected(res[1].process)
        /\ files = {}


\* C23: every run of the backend (a ping, a generation, any error, a
\* missing dependency among them) and of generate_document.py writes
\* exactly one JSON object to standard output; the exit code is not zero
\* when the object has success = false and zero when it has success = true.
C23_OneObjectAndExitCode ==
    (res # <<>> /\ res[1].entry \in {"backend", "generate_document"}) =>
        /\ Len(res[1].process.stdout) = 1
        /\ "success" \in DOMAIN res[1].process.stdout[1]
        /\ res[1].process.stdout[1].success = (res[1].process.exit = 0)


\* C24: every entry point that reports a successful generation (the
\* backend for both scripts, generate_document.py, generate_role.py)
\* writes an object with success = true, docxFileName and docxFilePath,
\* and docxFilePath is outputDir joined with docxFileName.
C24_SuccessObjectIsComplete ==
    (res # <<>> /\ res[1].process.path # "") =>
        /\ Len(res[1].process.stdout) = 1
        /\ DOMAIN res[1].process.stdout[1]
               = {"success", "docxFileName", "docxFilePath"}
        /\ res[1].process.stdout[1].success = TRUE
        /\ res[1].process.stdout[1].docxFilePath
               = inp.payload.outputDir \o "/"
                 \o res[1].process.stdout[1].docxFileName
        /\ res[1].process.stdout[1].docxFilePath = res[1].process.path


\* C25: a ping (the flag --ping, or the command ping in any letter case)
\* is answered by {success: true, status: "ok"} with exit code 0, and no
\* directory is created and no file written, whatever script, payload and
\* outputDir the request carries.
C25_PingTouchesNothing ==
    (res # <<>> /\ res[1].entry = "backend" /\ IsPing(inp)) =>
        /\ res[1].process.stdout = <<[success |-> TRUE, status |-> "ok"]>>
        /\ res[1].process.exit = 0
        /\ NeverDid(res[1].process, {"ensure_dir", "save"})
        /\ dirs = {}
        /\ files = {}

\* C25 witness: the backend answered a request with the command " PING ",
\* the script generate_document.py and a payload with an outputDir, a
\* known document type and a worker.
C25_Witness ==
    /\ res # <<>>
    /\ res[1].entry = "backend"
    /\ inp.argv = ""
    /\ inp.command = " PING "
    /\ inp.script = "generate_document.py"
    /\ inp.payload.outputDir = "out"
    /\ inp.payload.rows # <<>>
    /\ inp.documentType = "recu-combined"
    /\ inp.docx_installed

-----------------------------------------------------------------------------
(* Properties of the file names *)

\* C26: whatever texts the payload has as year, month, quarter and
\* options.bordereauNumber, the file name returned by build_docx_filename
\* has only characters of [0-9A-Za-z._-], and so has the file name of the
\* role document.
C26_FileNamesAreSafe ==
    /\ (res.document # <<>> /\ ~res.document[1].raised) =>
           OnlySafeCharacters(res.document[1].name)
    /\ res.role # <<>> => OnlySafeCharacters(res.role[1])

-----------------------------------------------------------------------------
(* Properties of the returned rows *)

\* C27: the rows returned by build_workers_financial_rows are the included
\* workers in the order of the input list, each one once, and the call
\* leaves the input records as they were.
C27_RowsAreIncludedWorkersInOrder ==
    [][/\ inp' = inp
       /\ res'.build # <<>> =>
              WorkerIds(res'.build[1].rows)
                  = WorkerIds(IncludedWorkers(inp.rows))]_vars

\* two different workers are included, in an order that can be told
C27_Witness ==
    /\ res.build # <<>>
    /\ Len(inp.rows) = 2
    /\ inp.rows[1].id # inp.rows[2].id
    /\ Len(res.build[1].rows) = 2

-----------------------------------------------------------------------------
(* Properties of the role document *)

C29_TotalIsReportPlusContinuation ==
    \A k \in 1..Len(res.drawn) :
        LET d == res.drawn[k]
        IN  /\ IsCarriedPlusRows(d.continuation.total,
                                 d.continuation.report[1],
                                 d.continuation.rows)
            /\ d.totals_words = role_docx_words(d.continuation.total.net)

-----------------------------------------------------------------------------
(* Properties of the period of the RCAR statements *)

\* C30: for an RCAR statement with a year and a quarter in 1..4, the dates
\* in the file name are the period printed in the document, with the months
\* of report.period.months and without them.
C30_FileNameCarriesPrintedPeriod ==
    (res.name # <<>> /\ res.period # <<>> /\ ~res.name[1].raised) =>
        EndsWith(res.name[1].name, PeriodEnding(res.period[1]))

====
